---- MODULE Spec2Model ----
(***************************************************************************)
(* Recurrence-rule codec of the class-coordinator calendar                 *)
(* (utils/calendar/recurrence-utils): recurrenceRuleToString and           *)
(* stringToRecurrenceRule, modelled character by character on the          *)
(* JavaScript primitives they call (split, replace, parseInt, toLowerCase, *)
(* Date parsing and Date.prototype.toDateString).                          *)
(*                                                                         *)
(* Strings are TLA+ strings; a Date is a record holding its instant in     *)
(* minutes since 1970-01-01T00:00Z; the host's time zone and its Date      *)
(* parser (V8 or a parser that rejects out-of-range days) are part of the  *)
(* state, chosen once when the program starts.                             *)
(*                                                                         *)
(* getRecurrenceDescription and the time-of-day utilities of the calendar  *)
(* hook and the event form (parseTime) follow, each under a specification  *)
(* of its own: DescribeSpec and TimeSpec.                                  *)
(***************************************************************************)
EXTENDS Integers, Sequences, FiniteSets, TLC

VARIABLES tz, engine, pc, rule, text, result, timeString, parsed,
          startDate, selector, made,
          formValues, parseResult, event, allDay,
          form, watched, toRun, changed, chosen,
          recurrenceField, customRule, selectedPreset, endType,
          isCustomDialogOpen,
          postBody, postId, inflight, rejected, response, schedulesTable,
          linkTable,
          page, paginated

\* The variables of the recurrence codec.
codecVars == <<rule, text, result>>

\* The variables of the time-of-day utilities.
timeVars == <<timeString, parsed, startDate, selector, made>>

\* The variables of the event form's schema and of the all-day checks.
eventVars == <<formValues, parseResult, event, allDay>>

\* The variables of the event form's effects: the form's values, the
\* values of the last render, the effects still to run after it, the fields
\* set since it, and the duration option the user chose last.
effectVars == <<form, watched, toRun, changed, chosen>>

\* The variables of the recurrence input: the form's recurrence field and
\* the component's state.
recurrenceVars ==
  <<recurrenceField, customRule, selectedPreset, endType, isCustomDialogOpen>>

\* The variables of POST /api/v1/calendar: the request's body and the id
\* made for it, the inserts sent and not yet executed, those that failed,
\* the status answered, and the rows of the two tables by schedule id.
apiVars ==
  <<postBody, postId, inflight, rejected, response, schedulesTable, linkTable>>

\* The variables of the pagination helpers: the page asked for and the
\* response made for it.
pageVars == <<page, paginated>>

vars ==
  <<tz, engine, pc, codecVars, timeVars, eventVars, effectVars,
    recurrenceVars, apiVars, pageVars>>

(***************************************************************************)
(* Bounds of the model.                                                    *)
(***************************************************************************)
\* Largest interval a form-built rule carries (the smallest is -1).
MaxInterval == 3
\* Largest count a form-built rule carries (the smallest is -1).
MaxCount == 2
\* Longest weekDays sequence of a form-built rule in the full product.
MaxWeekDays == 2
\* End dates run over MaxDayOffset + 1 consecutive days from 2023-12-31.
MaxDayOffset == 7
\* Most tokens that follow the frequency slot of a stored string.
MaxParts == 2
\* The number of POST requests served.
MaxPosts == 2
\* The largest offset, limit and total of a page.
MaxOffset == 6
MaxLimit == 3
MaxTotal == 7

(***************************************************************************)
(* JavaScript values that are not plain numbers, strings or arrays.        *)
(***************************************************************************)
Null == [t |-> "null"]
Undefined == [t |-> "undefined"]
NaN == [t |-> "nan"]
InvalidDate == [t |-> "invaliddate"]
Num(n) == [t |-> "num", v |-> n]
\* A Date: tm minutes since the epoch (UTC), ms milliseconds into that minute.
MkDate(tm, ms) == [t |-> "date", tm |-> tm, ms |-> ms]

\* x instanceof Date
IsDateObject(x) == x.t \in {"date", "invaliddate"}
\* x instanceof Date && !isNaN(x.getTime())
IsValidDate(x) == x.t = "date"

(***************************************************************************)
(* String primitives.                                                      *)
(***************************************************************************)
CharAt(s, i) == SubSeq(s, i, i)

UpperLetters == "ABCDEFGHIJKLMNOPQRSTUVWXYZ"
LowerLetters == "abcdefghijklmnopqrstuvwxyz"
Digits == "0123456789"

IsDigit(c) == \E i \in 1..10 : CharAt(Digits, i) = c
DigitValue(c) == (CHOOSE i \in 1..10 : CharAt(Digits, i) = c) - 1

LowerChar(c) ==
  IF \E i \in 1..26 : CharAt(UpperLetters, i) = c
  THEN CharAt(LowerLetters, CHOOSE i \in 1..26 : CharAt(UpperLetters, i) = c)
  ELSE c

UpperChar(c) ==
  IF \E i \in 1..26 : CharAt(LowerLetters, i) = c
  THEN CharAt(UpperLetters, CHOOSE i \in 1..26 : CharAt(LowerLetters, i) = c)
  ELSE c

\* String.prototype.toLowerCase
RECURSIVE ToLowerCase(_)
ToLowerCase(s) ==
  IF s = "" THEN "" ELSE LowerChar(Head(s)) \o ToLowerCase(Tail(s))

\* String.prototype.toLocaleUpperCase (on ASCII input)
RECURSIVE ToLocaleUpperCase(_)
ToLocaleUpperCase(s) ==
  IF s = "" THEN "" ELSE UpperChar(Head(s)) \o ToLocaleUpperCase(Tail(s))

\* First position of the one-character string c in s, 0 when there is none.
RECURSIVE IndexFrom(_, _, _)
IndexFrom(s, c, i) ==
  IF i > Len(s) THEN 0
  ELSE IF CharAt(s, i) = c THEN i ELSE IndexFrom(s, c, i + 1)

IndexOf(s, c) == IndexFrom(s, c, 1)

\* String.prototype.split with a one-character separator: every piece,
\* empty ones included; the empty string splits to one empty piece.
RECURSIVE Split(_, _)
Split(s, c) ==
  LET i == IndexOf(s, c)
  IN  IF i = 0 THEN <<s>>
      ELSE <<SubSeq(s, 1, i - 1)>> \o Split(SubSeq(s, i + 1, Len(s)), c)

\* Array.prototype.join
RECURSIVE Join(_, _)
Join(parts, sep) ==
  IF Len(parts) = 0 THEN ""
  ELSE IF Len(parts) = 1 THEN parts[1]
  ELSE parts[1] \o sep \o Join(Tail(parts), sep)

StartsWith(s, p) == Len(s) >= Len(p) /\ SubSeq(s, 1, Len(p)) = p

\* s.replace(/-/g, '')
RECURSIVE RemoveHyphens(_)
RemoveHyphens(s) ==
  IF s = "" THEN ""
  ELSE IF Head(s) = "-" THEN RemoveHyphens(Tail(s))
  ELSE Head(s) \o RemoveHyphens(Tail(s))

\* Template-literal rendering of an integer.
NumberToString(n) == ToString(n)

\* String.prototype.padStart(w, '0') of a non-negative integer's digits.
RECURSIVE PadStart(_, _)
PadStart(s, w) == IF Len(s) >= w THEN s ELSE PadStart("0" \o s, w)

RECURSIVE SkipSpaces(_)
SkipSpaces(s) == IF s # "" /\ Head(s) = " " THEN SkipSpaces(Tail(s)) ELSE s

\* The value of the longest prefix of decimal digits of s, given the value
\* acc of the digits already read.
RECURSIVE DigitsPrefix(_, _)
DigitsPrefix(s, acc) ==
  IF s # "" /\ IsDigit(Head(s))
  THEN DigitsPrefix(Tail(s), 10 * acc + DigitValue(Head(s)))
  ELSE acc

\* parseInt(s, 10): leading blanks skipped, an optional sign, then the
\* longest prefix of digits; NaN when there is no digit.
ParseInt(s) ==
  LET t == SkipSpaces(s)
      neg == t # "" /\ Head(t) = "-"
      u == IF t # "" /\ Head(t) \in {"-", "+"} THEN Tail(t) ELSE t
  IN  IF u = "" \/ ~IsDigit(Head(u)) THEN NaN
      ELSE Num(IF neg THEN -DigitsPrefix(u, 0) ELSE DigitsPrefix(u, 0))

(***************************************************************************)
(* The proleptic Gregorian calendar, in days since 1970-01-01.             *)
(***************************************************************************)
IsLeapYear(y) == (y % 4 = 0 /\ y % 100 # 0) \/ y % 400 = 0

DaysInMonth(y, m) ==
  IF m = 2 THEN (IF IsLeapYear(y) THEN 29 ELSE 28)
  ELSE IF m \in {4, 6, 9, 11} THEN 30 ELSE 31

\* MakeDay(y, m - 1, d): a day past the month's end runs into the next month.
DayFromCivil(y, m, d) ==
  LET yy == IF m <= 2 THEN y - 1 ELSE y
      era == yy \div 400
      yoe == yy - era * 400
      mp == IF m > 2 THEN m - 3 ELSE m + 9
      doy == (153 * mp + 2) \div 5 + d - 1
      doe == yoe * 365 + yoe \div 4 - yoe \div 100 + doy
  IN  era * 146097 + doe - 719468

\* YearFromTime, MonthFromTime, DateFromTime of a day number.
CivilFromDay(z) ==
  LET zz == z + 719468
      era == zz \div 146097
      doe == zz - era * 146097
      yoe == (doe - doe \div 1460 + doe \div 36524 - doe \div 146096) \div 365
      doy == doe - (365 * yoe + yoe \div 4 - yoe \div 100)
      mp == (5 * doy + 2) \div 153
      d == doy - (153 * mp + 2) \div 5 + 1
      m == IF mp < 10 THEN mp + 3 ELSE mp - 9
      y == yoe + era * 400 + (IF m <= 2 THEN 1 ELSE 0)
  IN  [y |-> y, m |-> m, d |-> d]

\* WeekDay(t): 0 is Sunday; 1970-01-01 was a Thursday.
WeekDayOfDay(z) == (z + 4) % 7

MinutesPerDay == 24 * 60

\* The calendar day of a Date in the host's time zone, as a day number.
LocalDay(date, zone) == (date.tm + zone) \div MinutesPerDay
\* getFullYear/getMonth + 1/getDate in the host's time zone.
LocalCivil(date, zone) == CivilFromDay(LocalDay(date, zone))
\* new Date(y, m - 1, d): local midnight of a calendar day.
LocalMidnight(y, m, d, zone) ==
  MkDate(DayFromCivil(y, m, d) * MinutesPerDay - zone, 0)

WeekDayShortNames == <<"Sun", "Mon", "Tue", "Wed", "Thu", "Fri", "Sat">>
MonthShortNames ==
  <<"Jan", "Feb", "Mar", "Apr", "May", "Jun",
    "Jul", "Aug", "Sep", "Oct", "Nov", "Dec">>

\* Date.prototype.toDateString: "Mon Jan 01 2024", in the host's time zone.
ToDateString(date, zone) ==
  LET z == LocalDay(date, zone)
      c == CivilFromDay(z)
  IN  WeekDayShortNames[WeekDayOfDay(z) + 1] \o " "
        \o MonthShortNames[c.m] \o " "
        \o PadStart(NumberToString(c.d), 2) \o " "
        \o PadStart(NumberToString(c.y), 4)

AllDigits(s) == \A i \in 1..Len(s) : IsDigit(CharAt(s, i))

\* new Date("YYYY-MM-DD"): the date-only ISO form is UTC midnight. A day
\* of 29..31 that the month does not have is accepted and carried into the
\* next month by V8; a parser that follows the format's range rules gives
\* an Invalid Date. Anything else of this shape is an Invalid Date.
NewDateFromString(s, eng) ==
  IF /\ Len(s) = 10
     /\ CharAt(s, 5) = "-" /\ CharAt(s, 8) = "-"
     /\ AllDigits(SubSeq(s, 1, 4))
     /\ AllDigits(SubSeq(s, 6, 7))
     /\ AllDigits(SubSeq(s, 9, 10))
  THEN LET y == DigitsPrefix(SubSeq(s, 1, 4), 0)
           m == DigitsPrefix(SubSeq(s, 6, 7), 0)
           d == DigitsPrefix(SubSeq(s, 9, 10), 0)
       IN  IF m \in 1..12 /\ d \in 1..DaysInMonth(y, m)
           THEN MkDate(DayFromCivil(y, m, d) * MinutesPerDay, 0)
           ELSE IF m \in 1..12 /\ d \in 1..31 /\ eng = "v8"
           THEN MkDate(DayFromCivil(y, m, d) * MinutesPerDay, 0)
           ELSE InvalidDate
  ELSE InvalidDate

(***************************************************************************)
(* recurrence-utils: the lookup tables and the guards.                     *)
(***************************************************************************)
Frequencies == {"daily", "weekly", "monthly", "yearly"}

\* WEEKDAY_MAP, indexed by day + 1.
WEEKDAY_MAP == <<"SU", "MO", "TU", "WE", "TH", "FR", "SA">>

\* Members every object literal inherits from Object.prototype: the `in`
\* operator finds them in WEEKDAY_REVERSE_MAP although they are no codes.
ObjectPrototypeKeys ==
  {"constructor", "toString", "valueOf", "hasOwnProperty", "isPrototypeOf",
   "propertyIsEnumerable", "toLocaleString", "__proto__"}

\* WEEKDAY_REVERSE_MAP[code]: the day number of a code, a function object
\* for an inherited member.
WEEKDAY_REVERSE_MAP(code) ==
  IF \E i \in 1..7 : WEEKDAY_MAP[i] = code
  THEN Num((CHOOSE i \in 1..7 : WEEKDAY_MAP[i] = code) - 1)
  ELSE [t |-> "function"]

isValidFrequency(freq) == freq \in Frequencies

\* A variant of isValidWeekDay with the lower bound exclusive (day > 0).
isValidWeekDayExclusive(day) == day.t = "num" /\ day.v > 0 /\ day.v <= 6

\* typeof day === 'number' && day >= 0 && day <= 6, on a tagged value
isValidWeekDay(day) == day.t = "num" /\ day.v >= 0 /\ day.v <= 6

\* day in WEEKDAY_REVERSE_MAP
isValidICalWeekDay(day) ==
  (\E i \in 1..7 : WEEKDAY_MAP[i] = day) \/ day \in ObjectPrototypeKeys

(***************************************************************************)
(* recurrenceRuleToString                                                  *)
(***************************************************************************)
\* A variant of IntervalEmitted that tests interval !== 1.
IntervalEmittedNotOne(interval) == interval # 1

\* rule.interval > 1
IntervalEmitted(interval) == interval > 1

\* A variant of EncodableDay with the lower bound exclusive (day > 0).
EncodableDayExclusive(day) == day > 0 /\ day <= 6

\* The filter of rule.weekDays: typeof day === 'number' && 0 <= day <= 6
EncodableDay(day) == day >= 0 /\ day <= 6

\* validDays.map(day => WEEKDAY_MAP[day]).join(',')
RECURSIVE ByDayValue(_)
ByDayValue(days) ==
  IF Len(days) = 0 THEN ""
  ELSE IF Len(days) = 1 THEN WEEKDAY_MAP[days[1] + 1]
  ELSE WEEKDAY_MAP[days[1] + 1] \o "," \o ByDayValue(Tail(days))

\* rule.endDate?.toDateString().split('T')[0]?.replace(/-/g, '')
UntilValue(endDate, zone) ==
  RemoveHyphens(Split(ToDateString(endDate, zone), "T")[1])

\* typeof rule.count === 'number' && rule.count > 0
CountEmitted(count) == count.t = "num" /\ count.v > 0

\* The rule carries a weekDays property (it is optional in the type).
HasWeekDays(r) == "weekDays" \in DOMAIN r

\* weekDays?.length, with undefined read as the falsy 0 it compares as
WeekDaysLength(r) == IF HasWeekDays(r) THEN Len(r.weekDays) ELSE 0

\* A variant of EncodeParts that pushes the count before the end date.
EncodePartsCountFirst(r, zone) ==
  LET validDays == SelectSeq(r.weekDays, EncodableDay)
      freqPart == <<"FREQ=" \o ToLocaleUpperCase(r.frequency)>>
      intervalPart ==
        IF IntervalEmitted(r.interval)
        THEN <<"INTERVAL=" \o NumberToString(r.interval)>> ELSE <<>>
      byDayPart ==
        IF WeekDaysLength(r) # 0 /\ Len(validDays) # 0
        THEN <<"BYDAY=" \o ByDayValue(validDays)>> ELSE <<>>
      untilPart ==
        IF IsDateObject(r.endDate) /\ IsValidDate(r.endDate)
        THEN <<"UNTIL=" \o UntilValue(r.endDate, zone)>> ELSE <<>>
      countPart ==
        IF CountEmitted(r.count)
        THEN <<"COUNT=" \o NumberToString(r.count.v)>> ELSE <<>>
  IN  freqPart \o intervalPart \o byDayPart \o countPart \o untilPart

\* The parts array, in the order of the pushes.
EncodeParts(r, zone) ==
  LET validDays == SelectSeq(r.weekDays, EncodableDay)
      freqPart == <<"FREQ=" \o ToLocaleUpperCase(r.frequency)>>
      intervalPart ==
        IF IntervalEmitted(r.interval)
        THEN <<"INTERVAL=" \o NumberToString(r.interval)>> ELSE <<>>
      byDayPart ==
        IF WeekDaysLength(r) # 0 /\ Len(validDays) # 0
        THEN <<"BYDAY=" \o ByDayValue(validDays)>> ELSE <<>>
      untilPart ==
        IF IsDateObject(r.endDate) /\ IsValidDate(r.endDate)
        THEN <<"UNTIL=" \o UntilValue(r.endDate, zone)>> ELSE <<>>
      countPart ==
        IF CountEmitted(r.count)
        THEN <<"COUNT=" \o NumberToString(r.count.v)>> ELSE <<>>
  IN  freqPart \o intervalPart \o byDayPart \o untilPart \o countPart

recurrenceRuleToString(r, zone) == "RRULE:" \o Join(EncodeParts(r, zone), ";")

(***************************************************************************)
(* stringToRecurrenceRule                                                  *)
(***************************************************************************)
Str(s) == [t |-> "str", v |-> s]
Arr(a) == [t |-> "arr", v |-> a]
Thrown == [t |-> "throw", message |-> "Invalid RRULE: frequency is required"]
Returned(r) == [t |-> "rule", v |-> r]

\* Variant: the prefix removed as often as it leads the string.
StripPrefixRepeated(s) ==
  LET once == IF StartsWith(s, "RRULE:") THEN SubSeq(s, 7, Len(s)) ELSE s
  IN  IF StartsWith(once, "RRULE:") THEN SubSeq(once, 7, Len(once)) ELSE once

\* rruleString.replace(/^RRULE:/, '')
StripPrefix(s) ==
  IF StartsWith(s, "RRULE:") THEN SubSeq(s, 7, Len(s)) ELSE s

\* const [key, value] = part.split('='): the first two pieces
PartKey(part) == Split(part, "=")[1]

\* Variant: the value is everything after the first '='.
PartValueRest(part) ==
  IF IndexOf(part, "=") = 0 THEN Undefined
  ELSE Str(SubSeq(part, IndexOf(part, "=") + 1, Len(part)))

PartValue(part) ==
  LET kv == Split(part, "=")
  IN  IF Len(kv) >= 2 THEN Str(kv[2]) ELSE Undefined

\* !key || !value
PartIgnored(part) ==
  \/ PartKey(part) = ""
  \/ PartValue(part) = Undefined
  \/ PartValue(part).v = ""

\* A variant of DecodeFreq that clears the frequency on an unknown value.
DecodeFreqClearing(acc, value) ==
  LET freq == ToLowerCase(value)
  IN  IF isValidFrequency(freq)
      THEN [acc EXCEPT !.frequency = Str(freq)]
      ELSE [acc EXCEPT !.frequency = Undefined]

\* A variant of DecodeFreq that stores the value in the case it came in.
DecodeFreqKeepingCase(acc, value) ==
  LET freq == ToLowerCase(value)
  IN  IF isValidFrequency(freq)
      THEN [acc EXCEPT !.frequency = Str(value)] ELSE acc

\* case 'FREQ'
DecodeFreq(acc, value) ==
  LET freq == ToLowerCase(value)
  IN  IF isValidFrequency(freq)
      THEN [acc EXCEPT !.frequency = Str(freq)] ELSE acc

\* A variant of PositiveNumber that lets zero through (n >= 0).
PositiveNumberOrZero(n) == n.t = "num" /\ n.v >= 0

\* !isNaN(n) && n > 0, for the parsed INTERVAL and COUNT
PositiveNumber(n) == n.t = "num" /\ n.v > 0

\* case 'INTERVAL'
DecodeInterval(acc, value) ==
  LET interval == ParseInt(value)
  IN  IF PositiveNumber(interval)
      THEN [acc EXCEPT !.interval = interval] ELSE acc

\* days.filter(isValidICalWeekDay).map(day => WEEKDAY_REVERSE_MAP[day])
\*     .filter(isValidWeekDay), as plain day numbers
RECURSIVE ValidDays(_)
ValidDays(days) ==
  IF Len(days) = 0 THEN <<>>
  ELSE IF /\ isValidICalWeekDay(days[1])
          /\ isValidWeekDay(WEEKDAY_REVERSE_MAP(days[1]))
       THEN <<WEEKDAY_REVERSE_MAP(days[1]).v>> \o ValidDays(Tail(days))
       ELSE ValidDays(Tail(days))

\* case 'BYDAY'
DecodeByDay(acc, value) ==
  LET validDays == ValidDays(Split(value, ","))
  IN  IF Len(validDays) # 0
      THEN [acc EXCEPT !.weekDays = Arr(validDays)] ELSE acc

\* case 'UNTIL'
DecodeUntil(acc, value, eng) ==
  IF Len(value) = 8
  THEN LET year == SubSeq(value, 1, 4)
           month == SubSeq(value, 5, 6)
           day == SubSeq(value, 7, 8)
           date == NewDateFromString(year \o "-" \o month \o "-" \o day, eng)
       IN  IF IsValidDate(date) THEN [acc EXCEPT !.endDate = date] ELSE acc
  ELSE acc

\* case 'COUNT'
DecodeCount(acc, value) ==
  LET count == ParseInt(value)
  IN  IF PositiveNumber(count)
      THEN [acc EXCEPT !.count = count] ELSE acc

\* The body of the forEach callback.
DecodePart(acc, part, eng) ==
  IF PartIgnored(part) THEN acc
  ELSE LET key == PartKey(part)
           value == PartValue(part).v
       IN  CASE key = "FREQ" -> DecodeFreq(acc, value)
             [] key = "INTERVAL" -> DecodeInterval(acc, value)
             [] key = "BYDAY" -> DecodeByDay(acc, value)
             [] key = "UNTIL" -> DecodeUntil(acc, value, eng)
             [] key = "COUNT" -> DecodeCount(acc, value)
             [] OTHER -> acc

RECURSIVE DecodeParts(_, _, _)
DecodeParts(acc, parts, eng) ==
  IF Len(parts) = 0 THEN acc
  ELSE DecodeParts(DecodePart(acc, parts[1], eng), Tail(parts), eng)

\* const rule = { interval: 1 }
InitialPartialRule ==
  [frequency |-> Undefined, interval |-> Num(1), weekDays |-> Undefined,
   endDate |-> Undefined, count |-> Undefined]

\* x ?? d
Coalesce(x, d) == IF x = Undefined \/ x = Null THEN d ELSE x

stringToRecurrenceRule(rruleString, eng) ==
  LET cleanString == StripPrefix(rruleString)
      partial == DecodeParts(InitialPartialRule, Split(cleanString, ";"), eng)
  IN  IF partial.frequency = Undefined THEN Thrown
      ELSE Returned([frequency |-> partial.frequency.v,
                     interval |-> partial.interval.v,
                     weekDays |-> Coalesce(partial.weekDays, Arr(<<>>)).v,
                     endDate |-> Coalesce(partial.endDate, Null),
                     count |-> Coalesce(partial.count, Null)])

(***************************************************************************)
(* getRecurrenceDescription                                                *)
(***************************************************************************)
\* A value raised by a member call on a receiver that lacks the member.
TypeError == [t |-> "throw", message |-> "TypeError"]

\* const firstDay = weekDays ? weekDays[0] : []
FirstDay(r) ==
  IF ~HasWeekDays(r) THEN Arr(<<>>)
  ELSE IF Len(r.weekDays) = 0 THEN Undefined ELSE Num(r.weekDays[1])

WeekDayLongNames ==
  <<"Sunday", "Monday", "Tuesday", "Wednesday", "Thursday", "Friday",
    "Saturday">>
MonthLongNames ==
  <<"January", "February", "March", "April", "May", "June", "July",
    "August", "September", "October", "November", "December">>

\* A variant of AnchorDate on the Monday the source comment speaks of.
AnchorDateMonday(zone) == LocalMidnight(2024, 1, 8, zone)

\* new Date(2024, 0, 7)
AnchorDate(zone) == LocalMidnight(2024, 1, 7, zone)

\* date-fns addDays(date, amount)
addDays(date, amount) == MkDate(date.tm + amount * MinutesPerDay, date.ms)

\* toLocaleDateString('en-US', { weekday: 'long' })
WeekDayLong(date, zone) ==
  WeekDayLongNames[WeekDayOfDay(LocalDay(date, zone)) + 1]

\* toLocaleDateString('en-US', { weekday: 'short' })
WeekDayShort(date, zone) ==
  WeekDayShortNames[WeekDayOfDay(LocalDay(date, zone)) + 1]

\* toLocaleDateString('en-US', {day: 'numeric', month: 'long',
\* year: 'numeric'})
ToLocaleDateStringLong(date, zone) ==
  IF ~IsValidDate(date) THEN "Invalid Date"
  ELSE LET c == LocalCivil(date, zone)
       IN  MonthLongNames[c.m] \o " " \o NumberToString(c.d) \o ", "
             \o NumberToString(c.y)

\* The entries of days equal to d, then those equal to d + 1, up to 6.
RECURSIVE DaysFrom(_, _)
DaysFrom(days, d) ==
  IF d > 6 THEN <<>>
  ELSE SelectSeq(days, LAMBDA x : x = d) \o DaysFrom(days, d + 1)

\* A variant of FilterValidWeekDays that returns the days in week order.
FilterValidWeekDaysSorted(days) == DaysFrom(days, 0)

\* weekDays.filter(isValidWeekDay)
FilterValidWeekDays(days) ==
  SelectSeq(days, LAMBDA x : isValidWeekDay(Num(x)))

\* .map(day => addDays(new Date(2024, 0, 7), day).toLocaleDateString(
\*   'en-US', {weekday: 'short'}))
RECURSIVE MapShortNames(_, _)
MapShortNames(days, zone) ==
  IF Len(days) = 0 THEN <<>>
  ELSE <<WeekDayShort(addDays(AnchorDate(zone), days[1]), zone)>>
         \o MapShortNames(Tail(days), zone)

\* const dayNames = weekDays.filter(...).map(...).join(', ')
DayNames(r, zone) ==
  Join(MapShortNames(FilterValidWeekDays(r.weekDays), zone), ", ")

\* const dayName = addDays(new Date(2024, 0, 7), firstDay)
\*   .toLocaleDateString('en-US', {weekday: 'long'})
DayName(r, zone) == WeekDayLong(addDays(AnchorDate(zone), FirstDay(r).v), zone)

\* A variant of EveryN without the plural ending.
EveryNSingular(interval, unit) ==
  "Every " \o NumberToString(interval) \o " " \o unit

\* `Every ${interval} days` and its like
EveryN(interval, unit) ==
  "Every " \o NumberToString(interval) \o " " \o unit \o "s"

\* A variant of SeveralDaysPhrase that keeps the interval in front.
SeveralDaysPhraseAppended(interval, dayNames) ==
  "Every " \o NumberToString(interval) \o " weeks on " \o dayNames

\* base = ` on ${dayNames}`: the assignment replaces the base
SeveralDaysPhrase(interval, dayNames) == " on " \o dayNames

\* The weekly case of the interval === 1 branch.
WeeklyBaseOne(r, zone) ==
  IF WeekDaysLength(r) = 1 /\ isValidWeekDay(FirstDay(r))
  THEN "Every " \o DayName(r, zone)
  ELSE IF WeekDaysLength(r) # 0
       THEN "Every week on " \o DayNames(r, zone)
       ELSE "Every week"

\* The weekly case of the else branch.
WeeklyBaseMany(r, zone) ==
  IF WeekDaysLength(r) = 1 /\ isValidWeekDay(FirstDay(r))
  THEN EveryN(r.interval, "week") \o " on " \o DayName(r, zone)
  ELSE IF WeekDaysLength(r) # 0
       THEN SeveralDaysPhrase(r.interval, DayNames(r, zone))
       ELSE EveryN(r.interval, "week")

\* The two switch statements on frequency.
BasePhrase(r, zone) ==
  IF r.interval = 1
  THEN CASE r.frequency = "daily" -> "Every day"
         [] r.frequency = "weekly" -> WeeklyBaseOne(r, zone)
         [] r.frequency = "monthly" -> "Every month"
         [] r.frequency = "yearly" -> "Every year"
         [] OTHER -> ""
  ELSE CASE r.frequency = "daily" -> EveryN(r.interval, "day")
         [] r.frequency = "weekly" -> WeeklyBaseMany(r, zone)
         [] r.frequency = "monthly" -> EveryN(r.interval, "month")
         [] r.frequency = "yearly" -> EveryN(r.interval, "year")
         [] OTHER -> ""

\* A variant of EndDateIsDate that only asks for a value to be there.
EndDateIsDefined(r) == r.endDate # Undefined

\* rule.endDate instanceof Date
EndDateIsDate(r) == IsDateObject(r.endDate)

\* A variant of EndCondition that appends the count after the end date.
EndConditionBoth(r, zone) ==
  (IF EndDateIsDate(r)
   THEN " until " \o ToLocaleDateStringLong(r.endDate, zone) ELSE "")
    \o (IF CountEmitted(r.count)
        THEN ", " \o NumberToString(r.count.v) \o " times" ELSE "")

\* The end condition appended to the base.
EndCondition(r, zone) ==
  IF EndDateIsDate(r)
  THEN " until " \o ToLocaleDateStringLong(r.endDate, zone)
  ELSE IF CountEmitted(r.count)
       THEN ", " \o NumberToString(r.count.v) \o " times"
       ELSE ""

getRecurrenceDescription(r, zone) == BasePhrase(r, zone) \o EndCondition(r, zone)

\* The member calls of getRecurrenceDescription, each under its guard:
\* weekDays.filter and rule.endDate.toLocaleDateString raise a TypeError
\* on a receiver that is not an array or not a Date.
DescriptionRaises(r) ==
  \/ /\ r.frequency = "weekly"
     /\ ~(WeekDaysLength(r) = 1 /\ isValidWeekDay(FirstDay(r)))
     /\ WeekDaysLength(r) # 0
     /\ ~HasWeekDays(r)
  \/ EndDateIsDate(r) /\ ~IsDateObject(r.endDate)

\* What a call of getRecurrenceDescription comes back with.
DescriptionOutcome(r, zone) ==
  IF DescriptionRaises(r) THEN TypeError
  ELSE Str(getRecurrenceDescription(r, zone))

\* The member calls of recurrenceRuleToString, each under its guard.
EncodingRaises(r) ==
  \/ r.frequency \notin STRING
  \/ WeekDaysLength(r) # 0 /\ ~HasWeekDays(r)
  \/ IsDateObject(r.endDate) /\ IsValidDate(r.endDate)
       /\ ~IsDateObject(r.endDate)

\* What a call of recurrenceRuleToString comes back with.
EncodingOutcome(r, zone) ==
  IF EncodingRaises(r) THEN TypeError
  ELSE Str(recurrenceRuleToString(r, zone))

(***************************************************************************)
(* parseTime, of the calendar hook and of the event form                   *)
(***************************************************************************)
\* A number with a fractional part, kept as the text it was written as.
Fraction(s) == [t |-> "fraction", v |-> s]

\* The string without its trailing blanks.
RECURSIVE TrimEnd(_)
TrimEnd(s) ==
  IF s # "" /\ SubSeq(s, Len(s), Len(s)) = " "
  THEN TrimEnd(SubSeq(s, 1, Len(s) - 1)) ELSE s

\* The digits of s are all zeros (or there are none).
AllZeros(s) == \A i \in 1..Len(s) : CharAt(s, i) = "0"

\* Number(s) of a string of the decimal grammar without exponent: blanks
\* around it are dropped, the empty string is 0, an optional sign and
\* digits with an optional '.' make a number, anything else is NaN.
ToNumber(s) ==
  LET t == TrimEnd(SkipSpaces(s))
      neg == t # "" /\ Head(t) = "-"
      u == IF t # "" /\ Head(t) \in {"-", "+"} THEN Tail(t) ELSE t
      dot == IndexOf(u, ".")
      whole == IF dot = 0 THEN u ELSE SubSeq(u, 1, dot - 1)
      frac == IF dot = 0 THEN "" ELSE SubSeq(u, dot + 1, Len(u))
  IN  IF t = "" THEN Num(0)
      ELSE IF ~(AllDigits(whole) /\ AllDigits(frac)) \/ whole \o frac = ""
           THEN NaN
      ELSE IF ~AllZeros(frac) THEN Fraction(t)
      ELSE Num(IF neg THEN -DigitsPrefix(whole, 0) ELSE DigitsPrefix(whole, 0))

\* !timeString: undefined, null, the empty string, 0 and NaN are falsy
IsFalsy(x) ==
  \/ x \in {Undefined, Null, NaN}
  \/ x.t = "str" /\ x.v = ""
  \/ x.t = "num" /\ x.v = 0

\* timeString.split(':').map(Number)
RECURSIVE MapNumber(_)
MapNumber(parts) ==
  IF Len(parts) = 0 THEN <<>>
  ELSE <<ToNumber(parts[1])>> \o MapNumber(Tail(parts))

\* const [hours, minutes] = ...: an index past the end reads undefined
ElementAt(arr, i) == IF i <= Len(arr) THEN arr[i] ELSE Undefined

\* parseTime of useCalendarUtils
parseTime(input) ==
  IF IsFalsy(input) \/ input.t # "str" THEN <<Num(0), Num(0)>>
  ELSE LET numbers == MapNumber(Split(input.v, ":"))
           hours == ElementAt(numbers, 1)
           minutes == ElementAt(numbers, 2)
       IN  <<Coalesce(hours, Num(0)), Coalesce(minutes, Num(0))>>

\* parseTime of SidebarEventForm
parseTimeInForm(input) ==
  IF IsFalsy(input) \/ input.t # "str" THEN <<Num(0), Num(0)>>
  ELSE LET numbers == MapNumber(Split(input.v, ":"))
           hours == ElementAt(numbers, 1)
           minutes == ElementAt(numbers, 2)
       IN  <<Coalesce(hours, Num(0)), Coalesce(minutes, Num(0))>>

(***************************************************************************)
(* createDateWithTime and calculateEndTimeFromDuration, of the calendar    *)
(* hook and of the event form                                              *)
(***************************************************************************)
MinutesPerHour == MinutesPerDay \div 24

\* new Date(): the instant of the call, here noon UTC of 4 March 2024.
Now == MkDate(DayFromCivil(2024, 3, 4) * MinutesPerDay + 12 * MinutesPerHour, 0)

\* new Date(y, m - 1, d, h, mi, s, ms): a local date and time.
LocalDateTime(y, m, d, h, mi, sec, ms, zone) ==
  MkDate(DayFromCivil(y, m, d) * MinutesPerDay + h * MinutesPerHour + mi - zone,
         sec * 1000 + ms)

\* ToIntegerOrInfinity of a finite number: the fraction is cut off.
ToInteger(x) ==
  IF x.t = "num" THEN x.v
  ELSE LET neg == Head(x.v) = "-"
           u == IF Head(x.v) \in {"-", "+"} THEN Tail(x.v) ELSE x.v
       IN  IF neg THEN -DigitsPrefix(u, 0) ELSE DigitsPrefix(u, 0)

\* date.setHours(hours, minutes, 0, 0), in the host's time zone: the day
\* stays, out-of-range hours and minutes carry over, NaN makes the date
\* invalid.
SetHours(date, hours, minutes, zone) ==
  IF ~IsValidDate(date) \/ hours = NaN \/ minutes = NaN THEN InvalidDate
  ELSE MkDate(LocalDay(date, zone) * MinutesPerDay
                + ToInteger(hours) * MinutesPerHour + ToInteger(minutes) - zone,
              0)

\* What a call leaves behind: the argument object and the returned one.
CallEffect(argument, returned) == [argument |-> argument, returned |-> returned]

\* A variant of createDateWithTimeEffect that sets the hours on the
\* argument itself (const newDate = date).
createDateWithTimeInPlace(date, time, zone) ==
  LET hm == parseTime(time)
      newDate == SetHours(date, Coalesce(hm[1], Num(0)), hm[2], zone)
  IN  IF IsFalsy(date) THEN CallEffect(date, Now)
      ELSE CallEffect(newDate, newDate)

\* createDateWithTime of useCalendarUtils, for a Date argument: the copy
\* new Date(date) gets the hours, the argument is not written to.
createDateWithTimeEffect(date, time, zone) ==
  LET newDate == date
      hm == parseTime(time)
  IN  IF IsFalsy(date) THEN CallEffect(date, Now)
      ELSE CallEffect(date,
                      SetHours(newDate, Coalesce(hm[1], Num(0)), hm[2], zone))

createDateWithTime(date, time, zone) ==
  createDateWithTimeEffect(date, time, zone).returned

\* createDateWithTime of SidebarEventForm
createDateWithTimeInFormEffect(date, time, zone) ==
  LET newDate == date
      hm == parseTimeInForm(time)
  IN  IF IsFalsy(date) THEN CallEffect(date, Now)
      ELSE CallEffect(date,
                      SetHours(newDate, Coalesce(hm[1], Num(0)), hm[2], zone))

createDateWithTimeInForm(date, time, zone) ==
  createDateWithTimeInFormEffect(date, time, zone).returned

\* The keys of DURATION_MAP
DurationKeys ==
  {"duration_30m", "duration_1h", "duration_1h30m", "duration_2h",
   "duration_3h"}

\* DURATION_MAP[durationValue], undefined for a key it does not hold
DURATION_MAP(key) ==
  CASE key = "duration_30m" -> Num(30)
    [] key = "duration_1h" -> Num(60)
    [] key = "duration_1h30m" -> Num(90)
    [] key = "duration_2h" -> Num(120)
    [] key = "duration_3h" -> Num(180)
    [] OTHER -> Undefined

\* durationValue in DURATION_MAP: own keys and those of Object.prototype
InDurationMap(key) == key \in DurationKeys \cup ObjectPrototypeKeys

\* date-fns addHours and addMinutes: the instant moves, whatever the day
addHours(date, amount) ==
  IF ~IsValidDate(date) THEN InvalidDate
  ELSE MkDate(date.tm + amount * MinutesPerHour, date.ms)
addMinutes(date, amount) ==
  IF ~IsValidDate(date) THEN InvalidDate
  ELSE MkDate(date.tm + amount, date.ms)

\* A variant of AddDuration that leaves out the minutes below the hour.
AddDurationHoursOnly(baseDate, durationMinutes) ==
  LET hours == durationMinutes \div MinutesPerHour
  IN  IF hours > 0 THEN addHours(baseDate, hours) ELSE baseDate

\* The hours and then the minutes of a duration added to the base date.
AddDuration(baseDate, durationMinutes) ==
  LET hours == durationMinutes \div MinutesPerHour
      minutes == durationMinutes % MinutesPerHour
      afterHours == IF hours > 0 THEN addHours(baseDate, hours) ELSE baseDate
  IN  IF minutes > 0 THEN addMinutes(afterHours, minutes) ELSE afterHours

\* A variant of IsDurationSelector that knows the five options only.
IsKnownDuration(durationValue) == durationValue \in DurationKeys

\* durationValue.startsWith('duration_')
IsDurationSelector(durationValue) == StartsWith(durationValue, "duration_")

\* durationValue in DURATION_MAP === false
UnknownDuration(durationValue) == InDurationMap(durationValue) = FALSE

\* calculateEndTimeFromDuration of useCalendarUtils
calculateEndTimeFromDuration(date, time, durationValue, zone) ==
  LET baseDate == createDateWithTime(date, time, zone)
  IN  IF IsDurationSelector(durationValue)
      THEN LET durationMinutes == Coalesce(DURATION_MAP(durationValue), Num(0)).v
           IN  IF UnknownDuration(durationValue) THEN baseDate
               ELSE AddDuration(baseDate, durationMinutes)
      ELSE createDateWithTime(date, Str(durationValue), zone)

\* calculateEndTimeFromDuration of SidebarEventForm
calculateEndTimeFromDurationInForm(date, time, durationValue, zone) ==
  LET baseDate == createDateWithTimeInForm(date, time, zone)
  IN  IF IsDurationSelector(durationValue)
      THEN LET durationMinutes == Coalesce(DURATION_MAP(durationValue), Num(0)).v
           IN  IF durationMinutes = 0 THEN baseDate
               ELSE AddDuration(baseDate, durationMinutes)
      ELSE createDateWithTimeInForm(date, Str(durationValue), zone)

(***************************************************************************)
(* checkIfAllDay, in its four places, and SidebarEventFormSchema           *)
(***************************************************************************)
\* date-fns isSameDay: the local days are equal; never so for an invalid
\* date
isSameDay(a, b, zone) ==
  IsValidDate(a) /\ IsValidDate(b) /\ LocalDay(a, zone) = LocalDay(b, zone)

\* date-fns getHours: the local hour of the day
getHours(date, zone) ==
  IF ~IsValidDate(date) THEN NaN
  ELSE Num(((date.tm + zone) % MinutesPerDay) \div MinutesPerHour)

\* A timestamp as the API's JSON carries it: an ISO string of the instant.
IsoString(date) == [t |-> "iso", tm |-> date.tm, ms |-> date.ms]

\* start instanceof Date ? start : new Date(start)
AsDate(x) ==
  IF IsDateObject(x) THEN x
  ELSE IF x.t = "iso" THEN MkDate(x.tm, x.ms) ELSE InvalidDate

\* checkIfAllDay of useCalendarUtils (the end at hour 23)
checkIfAllDay(start, end, zone) ==
  IF IsFalsy(start) \/ IsFalsy(end) THEN FALSE
  ELSE /\ isSameDay(start, end, zone)
       /\ getHours(start, zone) = Num(0)
       /\ getHours(end, zone) = Num(23)

\* checkIfAllDay of the later version of useCalendarUtils (the end at
\* hour 0)
checkIfAllDayLater(start, end, zone) ==
  IF IsFalsy(start) \/ IsFalsy(end) THEN FALSE
  ELSE /\ isSameDay(start, end, zone)
       /\ getHours(start, zone) = Num(0)
       /\ getHours(end, zone) = Num(0)

\* checkIfAllDay of SidebarEventDetail
checkIfAllDayInDetail(start, end, zone) ==
  IF IsFalsy(start) \/ IsFalsy(end) THEN FALSE
  ELSE LET startAt == AsDate(start)
           endAt == AsDate(end)
       IN  /\ isSameDay(startAt, endAt, zone)
           /\ getHours(startAt, zone) = Num(0)
           /\ getHours(endAt, zone) = Num(0)

\* checkIfAllDay of SidebarEventForm
checkIfAllDayInForm(start, end, zone) ==
  IF IsFalsy(start) \/ IsFalsy(end) THEN FALSE
  ELSE /\ isSameDay(start, end, zone)
       /\ getHours(start, zone) = Num(0)
       /\ getHours(end, zone) = Num(0)

\* /^([01]\d|2[0-3]):([0-5]\d)$/
MatchesTimePattern(s) ==
  /\ Len(s) = 5
  /\ \/ CharAt(s, 1) \in {"0", "1"} /\ IsDigit(CharAt(s, 2))
     \/ CharAt(s, 1) = "2" /\ CharAt(s, 2) \in {"0", "1", "2", "3"}
  /\ CharAt(s, 3) = ":"
  /\ CharAt(s, 4) \in {"0", "1", "2", "3", "4", "5"}
  /\ IsDigit(CharAt(s, 5))

\* The issues of the fields start, end, startTime and endTime, by path.
FieldIssues(data) ==
  {path \in {"start", "end"} : ~IsValidDate(data[path])}
    \cup {path \in {"startTime", "endTime"} :
            data[path].t # "str" \/ ~MatchesTimePattern(data[path].v)}

\* date.setHours(hours, minutes, seconds, ms) in the host's time zone
SetHoursFull(date, hours, minutes, seconds, ms, zone) ==
  IF ~IsValidDate(date) \/ hours = NaN \/ minutes = NaN THEN InvalidDate
  ELSE MkDate(LocalDay(date, zone) * MinutesPerDay
                + ToInteger(hours) * MinutesPerHour + ToInteger(minutes) - zone,
              seconds * 1000 + ms)

\* endDate.setHours(23, 59, 59, 999)
WholeDayEnd(date, zone) == SetHoursFull(date, Num(23), Num(59), 59, 999, zone)

\* The transform: the dates at their times, or the whole days.
Transform(data, zone) ==
  LET startParts == MapNumber(Split(data.startTime.v, ":"))
      endParts == MapNumber(Split(data.endTime.v, ":"))
      startAt == SetHoursFull(data.start, ElementAt(startParts, 1),
                                ElementAt(startParts, 2), 0, 0, zone)
      endAt == SetHoursFull(data.end, ElementAt(endParts, 1),
                              ElementAt(endParts, 2), 0, 0, zone)
  IN  IF data.allDay
      THEN [data EXCEPT
              !.start = SetHoursFull(startAt, Num(0), Num(0), 0, 0, zone),
              !.end = WholeDayEnd(endAt, zone)]
      ELSE [data EXCEPT !.start = startAt, !.end = endAt]

\* a > b on two Dates: by their instants, false for an invalid one
DateAfter(a, b) ==
  /\ IsValidDate(a) /\ IsValidDate(b)
  /\ a.tm > b.tm \/ (a.tm = b.tm /\ a.ms > b.ms)

\* A variant of EndAfterStart that lets equal instants through.
EndNotBeforeStart(data) == ~DateAfter(data.start, data.end)

\* The first refinement: data.end > data.start on either branch
EndAfterStart(data) == DateAfter(data.end, data.start)

Accepted(data) == [t |-> "accepted", data |-> data]
Rejected(paths) == [t |-> "rejected", paths |-> paths]

\* SidebarEventFormSchema.safeParse(data), for the fields of the event's
\* time span: the field checks, then the transform and its refinement.
SidebarEventFormSchema(data, zone) ==
  IF FieldIssues(data) # {} THEN Rejected(FieldIssues(data))
  ELSE IF ~EndAfterStart(Transform(data, zone)) THEN Rejected({"endTime"})
  ELSE Accepted(Transform(data, zone))

(***************************************************************************)
(* The effects of SidebarEventForm on start and end                        *)
(***************************************************************************)
\* format(date, 'HH:mm') in the host's time zone
FormatHHmm(date, zone) ==
  LET minute == (date.tm + zone) % MinutesPerDay
  IN  PadStart(NumberToString(minute \div MinutesPerHour), 2) \o ":"
        \o PadStart(NumberToString(minute % MinutesPerHour), 2)

\* a.getTime() !== b.getTime(): the NaN of an Invalid Date differs from
\* every number and from itself
TimeDiffers(a, b) == ~(IsValidDate(a) /\ IsValidDate(b) /\ a = b)

\* The result of an effect: the form's values and the fields it set.
Effect(values, fields) == [values |-> values, fields |-> fields]

\* The start is set when it differs from the form's live value.
SetStart(f, newStartDate) ==
  IF TimeDiffers(f.start, newStartDate)
  THEN Effect([f EXCEPT !.start = newStartDate], {"start"})
  ELSE Effect(f, {})

\* The effect on the start: the start date at the start time.
StartEffect(w, f, zone) ==
  IF w.allDay \/ IsFalsy(w.start) \/ IsFalsy(w.startTime) THEN Effect(f, {})
  ELSE SetStart(f, createDateWithTimeInForm(w.start, w.startTime, zone))

\* The end is set when it differs from the form's live value, and with it
\* the end time, as the time of that end, when the selector is a duration.
SetEnd(w, f, newEndDate, zone) ==
  IF TimeDiffers(f.end, newEndDate)
  THEN IF StartsWith(w.endTime.v, "duration_")
       THEN Effect([f EXCEPT !.end = newEndDate,
                             !.endTime = Str(FormatHHmm(newEndDate, zone))],
                   {"end", "endTime"})
       ELSE Effect([f EXCEPT !.end = newEndDate], {"end"})
  ELSE Effect(f, {})

\* The effect on the end: the end computed from the start date, the start
\* time and the end selector.
EndEffect(w, f, zone) ==
  IF w.allDay \/ IsFalsy(w.start) \/ IsFalsy(w.startTime) \/ IsFalsy(w.endTime)
  THEN Effect(f, {})
  ELSE SetEnd(w, f,
              calculateEndTimeFromDurationInForm(w.start, w.startTime,
                                                 w.endTime.v, zone),
              zone)

\* The dependencies of the two effects, as fields of the form.
EffectDeps ==
  [start |-> {"start", "startTime", "allDay"},
   end |-> {"start", "startTime", "endTime", "allDay"}]

\* The effects whose dependencies are among the fields that changed.
EffectsToRun(fields) ==
  {effect \in DOMAIN EffectDeps : EffectDeps[effect] \cap fields # {}}

\* The specific times the end-time select offers: on one day only those
\* after the start time.
endTimeOptions(w, options, zone) ==
  IF IsFalsy(w.start) \/ IsFalsy(w.end) \/ IsFalsy(w.startTime) THEN options
  ELSE IF isSameDay(w.start, w.end, zone)
  THEN LET startHm == parseTimeInForm(w.startTime)
           startTotalMinutes == Coalesce(startHm[1], Num(0)).v * 60
                                  + Coalesce(startHm[2], Num(0)).v
       IN  {o \in options :
              LET hm == parseTimeInForm(Str(o))
              IN  Coalesce(hm[1], Num(0)).v * 60 + Coalesce(hm[2], Num(0)).v
                    > startTotalMinutes}
  ELSE options

(***************************************************************************)
(* SbFormRecurrenceInput                                                   *)
(***************************************************************************)
\* A rule object without endDate and count: reading them gives undefined.
BareRule(f, i, w) ==
  [frequency |-> f, interval |-> i, weekDays |-> w, endDate |-> Undefined,
   count |-> Undefined]

\* The options of getPresetOptions that carry a rule, for the week day of
\* the form's start date.
PresetRules(weekDay) ==
  [weekday |-> BareRule("weekly", 1, <<1, 2, 3, 4, 5>>),
   weekly_current |-> BareRule("weekly", 1, <<weekDay>>),
   biweekly_current |-> BareRule("weekly", 2, <<weekDay>>),
   monthly_current |-> BareRule("monthly", 1, <<weekDay>>),
   monthly_date |-> [frequency |-> "monthly", interval |-> 1,
                     endDate |-> Undefined, count |-> Undefined]]

\* The values of the preset select.
PresetValues == DOMAIN PresetRules(0) \cup {"none", "custom"}

\* The recurrence prop the event form passes: the decoded field, or
\* undefined for null and undefined.
RecurrenceProp(field, eng) ==
  IF field # Null /\ field # Undefined
  THEN stringToRecurrenceRule(field.v, eng) ELSE Undefined

\* useState(recurrence ?? {frequency: 'weekly', interval: 1, weekDays: []})
InitialCustomRule(recurrence) ==
  IF recurrence = Undefined THEN BareRule("weekly", 1, <<>>) ELSE recurrence.v

\* useState(recurrence?.count ? 'after' : recurrence?.endDate ? 'on' : 'never')
InitialEndType(recurrence) ==
  IF recurrence = Undefined THEN "never"
  ELSE IF ~IsFalsy(recurrence.v.count) THEN "after"
  ELSE IF ~IsFalsy(recurrence.v.endDate) THEN "on"
  ELSE "never"

\* parseInt(e.target.value) || 1
ParseIntOrOne(s) == IF IsFalsy(ParseInt(s)) THEN 1 ELSE ParseInt(s).v

\* prev.weekDays.includes(day) ? prev.weekDays.filter(d => d !== day)
\*                              : [...prev.weekDays, day]
ToggledWeekDays(weekDays, day) ==
  IF \E i \in 1..Len(weekDays) : weekDays[i] = day
  THEN SelectSeq(weekDays, LAMBDA d : d # day)
  ELSE Append(weekDays, day)

\* A variant of UpdatedRule that copies the end date and the count whatever
\* the end type.
UpdatedRuleWithBoth(custom, end) ==
  [frequency |-> custom.frequency,
   interval |-> custom.interval,
   weekDays |-> IF HasWeekDays(custom) THEN custom.weekDays ELSE <<>>,
   endDate |-> IF ~IsFalsy(custom.endDate) THEN custom.endDate ELSE Undefined,
   count |-> IF ~IsFalsy(custom.count) THEN custom.count ELSE Undefined]

\* updatedRule of handleCustomRuleSubmit: the end date for end type 'on',
\* the count for 'after'
UpdatedRule(custom, end) ==
  [frequency |-> custom.frequency,
   interval |-> custom.interval,
   weekDays |-> IF HasWeekDays(custom) THEN custom.weekDays ELSE <<>>,
   endDate |-> IF end = "on" /\ ~IsFalsy(custom.endDate)
               THEN custom.endDate ELSE Undefined,
   count |-> IF ~(end = "on" /\ ~IsFalsy(custom.endDate))
                  /\ end = "after" /\ ~IsFalsy(custom.count)
             THEN custom.count ELSE Undefined]

(***************************************************************************)
(* POST /api/v1/calendar                                                   *)
(***************************************************************************)
MeetingTypes == {"offline", "online", "hybrid"}

\* A string of the body, given by its length.
Text(len) == [t |-> "text", len |-> len]

\* The length the columns recurrence, color and location_id hold:
\* varchar(500)
VarcharLength == 5 * 100

\* CreateEventSchema.safeParse(body), for the fields the handler's branches
\* read: the title min(1).max(255), the meeting type of the enum, the
\* meeting link id a positive integer or absent, the recurrence any string
\* or absent. The texts are given by their lengths.
CreateEventSchemaAccepts(body) ==
  /\ body.title.len >= 1 /\ body.title.len <= 255
  /\ body.meetingType \in MeetingTypes
  /\ body.meetingLinkId = Undefined
       \/ (body.meetingLinkId.t = "num" /\ body.meetingLinkId.v > 0)

\* eventData.meetingLinkId &&
\*   (eventData.meetingType === 'online' || eventData.meetingType === 'hybrid')
LinkRequested(body) ==
  /\ ~IsFalsy(body.meetingLinkId)
  /\ body.meetingType = "online" \/ body.meetingType = "hybrid"

\* The inserts the handler sends: both at once under Promise.all, the link
\* row's first, or the schedule row's alone.
InsertsSent(body) ==
  IF LinkRequested(body) THEN {"link", "schedule"} ELSE {"schedule"}

\* The database refuses the schedule row when a text is longer than its
\* column.
ScheduleInsertFails(body) ==
  body.recurrence # Undefined /\ body.recurrence.len > VarcharLength

(***************************************************************************)
(* generateLinks and createPaginatedResponse                               *)
(***************************************************************************)
\* Math.max(a, b)
MathMax(a, b) == IF a >= b THEN a ELSE b

\* The href `${path}?offset=${offset}&limit=${limit}`, by its parameters
PageHref(offset, limit) == [offset |-> offset, limit |-> limit]

\* Math.floor(total / limit) * limit
LastOffset(total, limit) == (total \div limit) * limit

\* The pagination links of generateLinks(path, undefined, page), by their
\* relation.
generateLinks(p) ==
  LET prev == IF p.offset > 0
              THEN {<<"prev", PageHref(MathMax(0, p.offset - p.limit), p.limit)>>}
              ELSE {}
      next == IF p.offset + p.limit < p.total
              THEN {<<"next", PageHref(p.offset + p.limit, p.limit)>>}
              ELSE {}
      first == IF p.offset > 0
               THEN {<<"first", PageHref(0, p.limit)>>} ELSE {}
      last == IF p.offset < LastOffset(p.total, p.limit)
              THEN {<<"last", PageHref(LastOffset(p.total, p.limit), p.limit)>>}
              ELSE {}
  IN  prev \cup next \cup first \cup last

\* createPaginatedResponse(data, path, page), with the data by its length
createPaginatedResponse(dataLength, p) ==
  [meta |-> [total |-> p.total, limit |-> p.limit, offset |-> p.offset,
             hasMore |-> p.offset + dataLength < p.total],
   links |-> generateLinks(p)]

(***************************************************************************)
(* The inputs: the rules the form layer builds and the strings the         *)
(* persistence layer hands back.                                           *)
(***************************************************************************)
\* Host time zones, as minutes east of UTC: New York (EST) and Jakarta.
TimeZones == {-300, 420}
Engines == {"v8", "strict"}

SeqsUpTo(S, n) == UNION {[1..k -> S] : k \in 0..n}

MkRule(f, i, w, e, c) ==
  [frequency |-> f, interval |-> i, weekDays |-> w, endDate |-> e, count |-> c]

\* The days the end dates run over: 2023-12-31 (a Sunday) and the days
\* after it, the first day of every month of 2024, and the leap day.
EndDays ==
  {DayFromCivil(2023, 12, 31) + k : k \in 0..MaxDayOffset}
    \cup {DayFromCivil(2024, m, 1) : m \in 1..12}
    \cup {DayFromCivil(2024, 2, 29)}

\* A date picked in the form: local midnight of the day.
PickedDate(day, zone) == MkDate(day * MinutesPerDay - zone, 0)

\* Weekday-rich rules: the sequences of up to MaxWeekDays entries in and
\* out of range, repeated or not, every single day, and two long weeks.
WeekDayRules ==
  {MkRule("weekly", i, w, Null, Null) :
     i \in {1, 2},
     w \in SeqsUpTo({-1, 0, 3, 6, 7}, MaxWeekDays)
             \cup {<<d>> : d \in -1..7}
             \cup {<<0, 1, 2, 3, 4>>, <<6, 5, 4, 3, 2, 1, 0>>}}

\* Date-rich rules.
EndDateRules(zone) ==
  {MkRule("daily", 1, <<>>, e, c) :
     e \in {PickedDate(d, zone) : d \in EndDays}
             \cup {Null, Undefined, InvalidDate},
     c \in {Null, Num(2)}}

\* Every frequency, interval and count against a few weeks and end dates.
ProductRules(zone) ==
  {MkRule(f, i, w, e, c) :
     f \in Frequencies,
     i \in -1..MaxInterval,
     w \in {<<>>, <<5, 0>>},
     e \in {Null, PickedDate(DayFromCivil(2024, 1, 1), zone),
            PickedDate(DayFromCivil(2024, 1, 2), zone)},
     c \in {Null} \cup {Num(n) : n \in -1..MaxCount}}

FormRules(zone) == WeekDayRules \cup EndDateRules(zone) \cup ProductRules(zone)

\* Rules without a weekDays property, as the optional field allows.
AbsentWeekDayRules(zone) ==
  {[frequency |-> f, interval |-> i, endDate |-> e, count |-> c] :
     f \in Frequencies,
     i \in {1, 2},
     e \in {Null, Undefined, InvalidDate,
            PickedDate(DayFromCivil(2024, 1, 1), zone)},
     c \in {Null, Undefined, Num(0), Num(MaxCount)}}

\* Weekly rules with one or several days and every kind of end condition.
WeeklyEndRules(zone) ==
  {MkRule("weekly", i, w, e, c) :
     i \in {0, 1, MaxInterval},
     w \in {<<1>>, <<7>>, <<2, 2>>, <<6, 0, 3>>},
     e \in {Null, InvalidDate, PickedDate(DayFromCivil(2024, 2, 29), zone)},
     c \in {Null, Num(0), Num(MaxCount), Num(10)}}

\* The rules a caller may hand to the two exported functions.
GivenRules(zone) ==
  FormRules(zone) \cup AbsentWeekDayRules(zone) \cup WeeklyEndRules(zone)

\* YYYYMMDD of a day number.
Stamp(day) ==
  LET c == CivilFromDay(day)
  IN  PadStart(ToString(c.y), 4) \o PadStart(ToString(c.m), 2)
        \o PadStart(ToString(c.d), 2)

FreqSlot ==
  {<<>>, <<"FREQ=DAILY">>, <<"FREQ=weekly">>, <<"FREQ=Monthly">>,
   <<"FREQ=HOURLY">>, <<"FREQ=DAILY=X">>}

CoreTokens ==
  {"INTERVAL=2", "INTERVAL=0", "BYDAY=MO,SU", "BYDAY=ZZ", "UNTIL=20240230",
   "FREQ=YEARLY", "FREQ=bogus", ""}

ProbeTokens ==
  {"INTERVAL=" \o ToString(n) : n \in 0..MaxInterval}
    \cup {"INTERVAL=-1", "INTERVAL=abc", "INTERVAL=2x", "INTERVAL= 3",
          "INTERVAL", "INTERVAL="}
    \cup {"COUNT=" \o ToString(n) : n \in 0..MaxCount}
    \cup {"COUNT=-3", "COUNT=x", "COUNT=10", "COUNT=1.5"}
    \cup {"BYDAY=ZZ,MO", "BYDAY=MO,SU", "BYDAY=ZZ", "BYDAY=mo",
          "BYDAY=constructor,FR", "BYDAY=SU,MO,TU,WE,TH,FR,SA",
          "BYDAY=TU,,TU", "BYDAY=SA,XX,WE,7,TH"}
    \cup {"UNTIL=" \o Stamp(d) : d \in EndDays}
    \cup {"UNTIL=20240230", "UNTIL=20230229", "UNTIL=20240431",
          "UNTIL=20241301", "UNTIL=20240100", "UNTIL=20240001",
          "UNTIL=20240132", "UNTIL=2024011", "UNTIL=202401011",
          "UNTIL=2024ab01", "UNTIL=abcdefgh", "UNTIL=2024-1-1"}
    \cup {"X=1", "=5", "freq=DAILY", "byday=MO"}
    \cup {"INTERVAL=2=3", "COUNT==2", "FREQ=bogus=DAILY"}
    \cup {"FREQ=yEaRlY", "FREQ=daily", "FREQ=MONTHLYX", "FREQ=DAY"}

\* Prefixed strings of a frequency slot and up to MaxParts tokens, and
\* the unprefixed ones of a frequency slot and at most one token.
CoreTexts ==
  {"RRULE:" \o Join(f \o others, ";") :
     f \in FreqSlot, others \in SeqsUpTo(CoreTokens, MaxParts)}
    \cup {Join(f \o others, ";") :
            f \in FreqSlot, others \in SeqsUpTo(CoreTokens, 1)}

ProbeTexts ==
  {"RRULE:" \o Join(<<"FREQ=WEEKLY", p>> \o c, ";") :
     p \in ProbeTokens, c \in SeqsUpTo(CoreTokens, 1)}
    \cup {Join(c \o <<p, "FREQ=WEEKLY">>, ";") :
            p \in ProbeTokens, c \in SeqsUpTo(CoreTokens, 1)}

\* Strings that carry the prefix twice.
DoublePrefixTexts ==
  {"RRULE:RRULE:" \o Join(f, ";") : f \in FreqSlot}

StoredStrings == CoreTexts \cup ProbeTexts \cup DoublePrefixTexts

(***************************************************************************)
(* The state machine: a caller either builds a rule in the form, encodes   *)
(* it and decodes the string again, or loads a stored string and decodes   *)
(* it.                                                                     *)
(***************************************************************************)
NoRule == [t |-> "norule"]
NoResult == [t |-> "noresult"]

\* The places that decide whether an event is all-day: the calendar hook
\* in its two versions, the event-detail panel and the event form.
AllDaySites == {"hook", "hook later", "detail", "form"}
NoAnswers == [site \in AllDaySites |-> "none"]

Init ==
  /\ tz \in TimeZones
  /\ engine \in Engines
  /\ pc = "idle"
  /\ rule = NoRule
  /\ text = ""
  /\ result = NoResult
  /\ timeString = Undefined
  /\ parsed = NoResult
  /\ startDate = Undefined
  /\ selector = ""
  /\ made = NoResult
  /\ formValues = NoResult
  /\ parseResult = NoResult
  /\ event = NoResult
  /\ allDay = NoAnswers
  /\ form = NoResult
  /\ watched = NoResult
  /\ toRun = {}
  /\ changed = {}
  /\ chosen = ""
  /\ recurrenceField = Undefined
  /\ customRule = NoRule
  /\ selectedPreset = "none"
  /\ endType = "never"
  /\ isCustomDialogOpen = FALSE
  /\ postBody = NoResult
  /\ postId = 0
  /\ inflight = {}
  /\ rejected = {}
  /\ response = 0
  /\ schedulesTable = {}
  /\ linkTable = {}
  /\ page = NoResult
  /\ paginated = NoResult

\* The form layer hands over a rule.
BuildRule ==
  /\ pc = "idle"
  /\ \E r \in FormRules(tz) : rule' = r
  /\ pc' = "built"
  /\ UNCHANGED <<tz, engine, text, result>>
  /\ UNCHANGED timeVars
  /\ UNCHANGED eventVars
  /\ UNCHANGED effectVars
  /\ UNCHANGED recurrenceVars
  /\ UNCHANGED apiVars
  /\ UNCHANGED pageVars

\* recurrenceRuleToString(rule)
Encode ==
  /\ pc = "built"
  /\ text' = recurrenceRuleToString(rule, tz)
  /\ pc' = "encoded"
  /\ UNCHANGED <<tz, engine, rule, result>>
  /\ UNCHANGED timeVars
  /\ UNCHANGED eventVars
  /\ UNCHANGED effectVars
  /\ UNCHANGED recurrenceVars
  /\ UNCHANGED apiVars
  /\ UNCHANGED pageVars

\* The persistence layer hands over a stored recurrence string.
LoadStored ==
  /\ pc = "idle"
  /\ \E s \in StoredStrings : text' = s
  /\ pc' = "loaded"
  /\ UNCHANGED <<tz, engine, rule, result>>
  /\ UNCHANGED timeVars
  /\ UNCHANGED eventVars
  /\ UNCHANGED effectVars
  /\ UNCHANGED recurrenceVars
  /\ UNCHANGED apiVars
  /\ UNCHANGED pageVars

\* stringToRecurrenceRule(text), on an encoded or a stored string
Decode ==
  /\ pc \in {"encoded", "loaded"}
  /\ result' = stringToRecurrenceRule(text, engine)
  /\ pc' = IF pc = "encoded" THEN "roundtrip" ELSE "decoded"
  /\ UNCHANGED <<tz, engine, rule, text>>
  /\ UNCHANGED timeVars
  /\ UNCHANGED eventVars
  /\ UNCHANGED effectVars
  /\ UNCHANGED recurrenceVars
  /\ UNCHANGED apiVars
  /\ UNCHANGED pageVars

Next == BuildRule \/ Encode \/ LoadStored \/ Decode

Spec == Init /\ [][Next]_vars

(***************************************************************************)
(* The description machine: a caller hands a rule to                       *)
(* getRecurrenceDescription or to recurrenceRuleToString, or a view        *)
(* decodes a stored string and describes the rule it got.                  *)
(***************************************************************************)
\* A caller holds a RecurrenceRule.
GiveRule ==
  /\ pc = "idle"
  /\ \E r \in GivenRules(tz) : rule' = r
  /\ pc' = "given"
  /\ UNCHANGED <<tz, engine, text, result>>
  /\ UNCHANGED timeVars
  /\ UNCHANGED eventVars
  /\ UNCHANGED effectVars
  /\ UNCHANGED recurrenceVars
  /\ UNCHANGED apiVars
  /\ UNCHANGED pageVars

\* getRecurrenceDescription(rule)
Describe ==
  /\ pc = "given"
  /\ result' = DescriptionOutcome(rule, tz)
  /\ pc' = "described"
  /\ UNCHANGED <<tz, engine, rule, text>>
  /\ UNCHANGED timeVars
  /\ UNCHANGED eventVars
  /\ UNCHANGED effectVars
  /\ UNCHANGED recurrenceVars
  /\ UNCHANGED apiVars
  /\ UNCHANGED pageVars

\* recurrenceRuleToString(rule), with its outcome kept
Stringify ==
  /\ pc = "given"
  /\ result' = EncodingOutcome(rule, tz)
  /\ pc' = "stringified"
  /\ UNCHANGED <<tz, engine, rule, text>>
  /\ UNCHANGED timeVars
  /\ UNCHANGED eventVars
  /\ UNCHANGED effectVars
  /\ UNCHANGED recurrenceVars
  /\ UNCHANGED apiVars
  /\ UNCHANGED pageVars

\* getRecurrenceDescription(rrule) on the rule stringToRecurrenceRule
\* returned; when it threw, the error leaves the view and nothing is
\* described.
DescribeDecoded ==
  /\ pc = "decoded"
  /\ result.t = "rule"
  /\ rule' = result.v
  /\ result' = DescriptionOutcome(result.v, tz)
  /\ pc' = "described"
  /\ UNCHANGED <<tz, engine, text>>
  /\ UNCHANGED timeVars
  /\ UNCHANGED eventVars
  /\ UNCHANGED effectVars
  /\ UNCHANGED recurrenceVars
  /\ UNCHANGED apiVars
  /\ UNCHANGED pageVars

DescribeNext ==
  GiveRule \/ Describe \/ Stringify \/ LoadStored \/ Decode \/ DescribeDecoded

DescribeSpec == Init /\ [][DescribeNext]_vars

(***************************************************************************)
(* The time machine: a time field hands its value to parseTime, in the     *)
(* calendar hook or in the event form.                                     *)
(***************************************************************************)
Hours == {0, 9, 12, 23}
Minutes == {0, 5, 30, 59}

\* "HH:mm"
TimeOfDay(h, mi) ==
  PadStart(NumberToString(h), 2) \o ":" \o PadStart(NumberToString(mi), 2)

\* The values of a time input and of the fields read in its place: the
\* times of day, strings that are none, and values that are no strings.
TimeInputs ==
  {Str(TimeOfDay(h, mi)) : h \in Hours, mi \in Minutes}
    \cup {Str(s) : s \in {"", "ab:cd", "12", ":", "12:", ":30", "12:3x",
                          "x:30", " 7:05 ", "1.5:30", "12:30:45", "-1:00",
                          "24:60", "7:5", "12.0:00", "noon"}}
    \cup {Undefined, Null, Num(0), Num(1230)}

\* A time field holds a value.
EnterTime ==
  /\ pc = "idle"
  /\ \E v \in TimeInputs : timeString' = v
  /\ pc' = "entered"
  /\ UNCHANGED <<tz, engine, codecVars, parsed, startDate, selector, made>>
  /\ UNCHANGED eventVars
  /\ UNCHANGED effectVars
  /\ UNCHANGED recurrenceVars
  /\ UNCHANGED apiVars
  /\ UNCHANGED pageVars

\* parseTime(timeString) of the calendar hook
ParseTime ==
  /\ pc = "entered"
  /\ parsed' = parseTime(timeString)
  /\ pc' = "parsed"
  /\ UNCHANGED <<tz, engine, codecVars, timeString, startDate, selector, made>>
  /\ UNCHANGED eventVars
  /\ UNCHANGED effectVars
  /\ UNCHANGED recurrenceVars
  /\ UNCHANGED apiVars
  /\ UNCHANGED pageVars

\* parseTime(timeString) of the event form
ParseTimeInForm ==
  /\ pc = "entered"
  /\ parsed' = parseTimeInForm(timeString)
  /\ pc' = "parsed in form"
  /\ UNCHANGED <<tz, engine, codecVars, timeString, startDate, selector, made>>
  /\ UNCHANGED eventVars
  /\ UNCHANGED effectVars
  /\ UNCHANGED recurrenceVars
  /\ UNCHANGED apiVars
  /\ UNCHANGED pageVars

\* The start dates: a turn of the year and a leap day, at times with and
\* without seconds, and the empty date field.
StartDates(zone) ==
  {LocalDateTime(c[1], c[2], c[3], t[1], t[2], t[3], t[4], zone) :
     c \in {<<2024, 1, 1>>, <<2024, 2, 29>>, <<2023, 12, 31>>},
     t \in {<<0, 0, 0, 0>>, <<13, 37, 42, 123>>, <<23, 59, 59, 999>>}}
    \cup {Undefined}

\* The values of the end selector: the duration options, tokens that
\* start like one, and times of day.
EndSelectors ==
  DurationKeys
    \cup {"duration_", "duration_5h", "duration_45m", "duration_1H"}
    \cup {"10:30", "00:00", "23:45", "Duration_1h"}

\* The start date field holds a date.
PickStartDate ==
  /\ pc = "entered"
  /\ \E d \in StartDates(tz) : startDate' = d
  /\ pc' = "dated"
  /\ UNCHANGED <<tz, engine, codecVars, timeString, parsed, selector, made>>
  /\ UNCHANGED eventVars
  /\ UNCHANGED effectVars
  /\ UNCHANGED recurrenceVars
  /\ UNCHANGED apiVars
  /\ UNCHANGED pageVars

\* createDateWithTime(startDate, timeString) of the calendar hook
CreateDateWithTime ==
  /\ pc = "dated"
  /\ LET effect == createDateWithTimeEffect(startDate, timeString, tz)
     IN  startDate' = effect.argument /\ made' = effect.returned
  /\ pc' = "created"
  /\ UNCHANGED <<tz, engine, codecVars, timeString, parsed, selector>>
  /\ UNCHANGED eventVars
  /\ UNCHANGED effectVars
  /\ UNCHANGED recurrenceVars
  /\ UNCHANGED apiVars
  /\ UNCHANGED pageVars

\* createDateWithTime(startDate, timeString) of the event form
CreateDateWithTimeInForm ==
  /\ pc = "dated"
  /\ LET effect == createDateWithTimeInFormEffect(startDate, timeString, tz)
     IN  startDate' = effect.argument /\ made' = effect.returned
  /\ pc' = "created in form"
  /\ UNCHANGED <<tz, engine, codecVars, timeString, parsed, selector>>
  /\ UNCHANGED eventVars
  /\ UNCHANGED effectVars
  /\ UNCHANGED recurrenceVars
  /\ UNCHANGED apiVars
  /\ UNCHANGED pageVars

\* The end selector holds a value.
ChooseEnd ==
  /\ pc = "dated"
  /\ \E v \in EndSelectors : selector' = v
  /\ pc' = "selected"
  /\ UNCHANGED <<tz, engine, codecVars, timeString, parsed, startDate, made>>
  /\ UNCHANGED eventVars
  /\ UNCHANGED effectVars
  /\ UNCHANGED recurrenceVars
  /\ UNCHANGED apiVars
  /\ UNCHANGED pageVars

\* calculateEndTimeFromDuration(startDate, timeString, selector) of the
\* calendar hook
CalculateEnd ==
  /\ pc = "selected"
  /\ made' = calculateEndTimeFromDuration(startDate, timeString, selector, tz)
  /\ pc' = "calculated"
  /\ UNCHANGED <<tz, engine, codecVars, timeString, parsed, startDate, selector>>
  /\ UNCHANGED eventVars
  /\ UNCHANGED effectVars
  /\ UNCHANGED recurrenceVars
  /\ UNCHANGED apiVars
  /\ UNCHANGED pageVars

\* calculateEndTimeFromDuration(startDate, timeString, selector) of the
\* event form
CalculateEndInForm ==
  /\ pc = "selected"
  /\ made' =
       calculateEndTimeFromDurationInForm(startDate, timeString, selector, tz)
  /\ pc' = "calculated in form"
  /\ UNCHANGED <<tz, engine, codecVars, timeString, parsed, startDate, selector>>
  /\ UNCHANGED eventVars
  /\ UNCHANGED effectVars
  /\ UNCHANGED recurrenceVars
  /\ UNCHANGED apiVars
  /\ UNCHANGED pageVars

TimeNext ==
  \/ EnterTime \/ ParseTime \/ ParseTimeInForm
  \/ PickStartDate \/ CreateDateWithTime \/ CreateDateWithTimeInForm
  \/ ChooseEnd \/ CalculateEnd \/ CalculateEndInForm

TimeSpec == Init /\ [][TimeNext]_vars

(***************************************************************************)
(* The event form's schema and the all-day checks                          *)
(***************************************************************************)
\* The days and the instants of a day an event's start or end falls on.
EventDays == {<<2024, 1, 1>>, <<2024, 2, 29>>}
DayInstants ==
  {<<0, 0, 0, 0>>, <<0, 30, 0, 0>>, <<13, 37, 42, 123>>, <<23, 0, 0, 0>>,
   <<23, 59, 59, 999>>}

\* The dates the form holds in start and end: a day as picked, or a slot
\* of the calendar with its time; nothing before a day is picked.
FormDates(zone) ==
  {LocalDateTime(c[1], c[2], c[3], t[1], t[2], t[3], t[4], zone) :
     c \in EventDays, t \in {<<0, 0, 0, 0>>, <<13, 37, 42, 123>>}}
    \cup {Undefined}

\* The texts of startTime and endTime: options of the time select, and
\* texts the pattern refuses.
FormTimes == {"00:00", "09:30", "23:59", "24:00", "9:30", ""}

\* The form values handed to the schema.
FormValues(zone) ==
  [start : FormDates(zone), end : FormDates(zone),
   startTime : {Str(s) : s \in FormTimes}, endTime : {Str(s) : s \in FormTimes},
   allDay : BOOLEAN]

\* The start or the end of an event as the components receive it.
EventDates(zone) ==
  {LocalDateTime(c[1], c[2], c[3], t[1], t[2], t[3], t[4], zone) :
     c \in EventDays, t \in DayInstants}
    \cup {Undefined}

\* The event as a component holds it: Dates, or the strings of the API's
\* JSON.
AsHeld(date, wire) ==
  IF wire = "iso" /\ IsValidDate(date) THEN IsoString(date) ELSE date

\* The user fills the event form.
FillForm ==
  /\ pc = "idle"
  /\ \E data \in FormValues(tz) : formValues' = data
  /\ pc' = "filled"
  /\ UNCHANGED <<tz, engine, codecVars, timeVars, parseResult, event, allDay>>
  /\ UNCHANGED effectVars
  /\ UNCHANGED recurrenceVars
  /\ UNCHANGED apiVars
  /\ UNCHANGED pageVars

\* form.handleSubmit: the resolver parses the values with
\* SidebarEventFormSchema.
Submit ==
  /\ pc = "filled"
  /\ parseResult' = SidebarEventFormSchema(formValues, tz)
  /\ pc' = "submitted"
  /\ UNCHANGED <<tz, engine, codecVars, timeVars, formValues, event, allDay>>
  /\ UNCHANGED effectVars
  /\ UNCHANGED recurrenceVars
  /\ UNCHANGED apiVars
  /\ UNCHANGED pageVars

\* The accepted values are saved and come back as an event.
SaveEvent ==
  /\ pc = "submitted"
  /\ parseResult.t = "accepted"
  /\ \E wire \in {"date", "iso"} :
       event' = [start |-> AsHeld(parseResult.data.start, wire),
                 end |-> AsHeld(parseResult.data.end, wire)]
  /\ pc' = "loaded"
  /\ UNCHANGED <<tz, engine, codecVars, timeVars, formValues, parseResult,
                 allDay>>
  /\ UNCHANGED effectVars
  /\ UNCHANGED recurrenceVars
  /\ UNCHANGED apiVars
  /\ UNCHANGED pageVars

\* An event of the calendar is opened.
LoadEvent ==
  /\ pc = "idle"
  /\ \E start \in EventDates(tz), end \in EventDates(tz),
        wire \in {"date", "iso"} :
       event' = [start |-> AsHeld(start, wire), end |-> AsHeld(end, wire)]
  /\ pc' = "loaded"
  /\ UNCHANGED <<tz, engine, codecVars, timeVars, formValues, parseResult,
                 allDay>>
  /\ UNCHANGED effectVars
  /\ UNCHANGED recurrenceVars
  /\ UNCHANGED apiVars
  /\ UNCHANGED pageVars

\* new Date(initialData.start): the Date of a Date or of its string,
\* Invalid Date of undefined
NewDate(x) == AsDate(x)

AnswerOf(b) == IF b THEN "true" ELSE "false"

\* The form built on useCalendarUtils initialises allDay.
CheckInHook ==
  /\ pc = "loaded"
  /\ allDay["hook"] = "none"
  /\ allDay' = [allDay EXCEPT !["hook"] =
       AnswerOf(checkIfAllDay(NewDate(event.start), NewDate(event.end), tz))]
  /\ UNCHANGED <<tz, engine, pc, codecVars, timeVars, formValues,
                 parseResult, event>>
  /\ UNCHANGED effectVars
  /\ UNCHANGED recurrenceVars
  /\ UNCHANGED apiVars
  /\ UNCHANGED pageVars

\* The same with the later version of useCalendarUtils.
CheckInHookLater ==
  /\ pc = "loaded"
  /\ allDay["hook later"] = "none"
  /\ allDay' = [allDay EXCEPT !["hook later"] =
       AnswerOf(checkIfAllDayLater(NewDate(event.start), NewDate(event.end),
                                   tz))]
  /\ UNCHANGED <<tz, engine, pc, codecVars, timeVars, formValues,
                 parseResult, event>>
  /\ UNCHANGED effectVars
  /\ UNCHANGED recurrenceVars
  /\ UNCHANGED apiVars
  /\ UNCHANGED pageVars

\* SidebarEventDetail formats the event.
CheckInDetail ==
  /\ pc = "loaded"
  /\ allDay["detail"] = "none"
  /\ allDay' = [allDay EXCEPT !["detail"] =
       AnswerOf(checkIfAllDayInDetail(event.start, event.end, tz))]
  /\ UNCHANGED <<tz, engine, pc, codecVars, timeVars, formValues,
                 parseResult, event>>
  /\ UNCHANGED effectVars
  /\ UNCHANGED recurrenceVars
  /\ UNCHANGED apiVars
  /\ UNCHANGED pageVars

\* SidebarEventForm formats its initial data.
CheckInForm ==
  /\ pc = "loaded"
  /\ allDay["form"] = "none"
  /\ allDay' = [allDay EXCEPT !["form"] =
       AnswerOf(checkIfAllDayInForm(NewDate(event.start), NewDate(event.end),
                                    tz))]
  /\ UNCHANGED <<tz, engine, pc, codecVars, timeVars, formValues,
                 parseResult, event>>
  /\ UNCHANGED effectVars
  /\ UNCHANGED recurrenceVars
  /\ UNCHANGED apiVars
  /\ UNCHANGED pageVars

EventNext ==
  \/ FillForm \/ Submit \/ SaveEvent \/ LoadEvent
  \/ CheckInHook \/ CheckInHookLater \/ CheckInDetail \/ CheckInForm

EventSpec == Init /\ [][EventNext]_vars

(***************************************************************************)
(* Vocabulary of the properties: the wire format as the specification      *)
(* words it, written without the codec's own operators.                    *)
(***************************************************************************)
Encoded == pc \in {"encoded", "roundtrip"}
Decoded == pc \in {"decoded", "roundtrip"}

\* The text after one leading "RRULE:", if there is one.
Body(s) ==
  IF Len(s) >= 6 /\ SubSeq(s, 1, 6) = "RRULE:" THEN SubSeq(s, 7, Len(s)) ELSE s

\* The ';'-separated tokens of a string.
Tokens(s) == Split(Body(s), ";")

\* A token's key: the text before its first '='.
TokenKey(tok) ==
  IF IndexOf(tok, "=") = 0 THEN tok ELSE SubSeq(tok, 1, IndexOf(tok, "=") - 1)

\* A token's value: the text after its first '=', up to the next '=' if
\* there is one; empty when the token has no '='.
TokenValue(tok) ==
  LET i == IndexOf(tok, "=")
      rest == SubSeq(tok, i + 1, Len(tok))
      j == IndexOf(rest, "=")
  IN  IF i = 0 THEN ""
      ELSE IF j = 0 THEN rest ELSE SubSeq(rest, 1, j - 1)

\* The values of the tokens with key k that carry a value, in order.
RECURSIVE ValuesOf(_, _)
ValuesOf(toks, k) ==
  IF Len(toks) = 0 THEN <<>>
  ELSE IF TokenKey(toks[1]) = k /\ TokenValue(toks[1]) # ""
       THEN <<TokenValue(toks[1])>> \o ValuesOf(Tail(toks), k)
       ELSE ValuesOf(Tail(toks), k)

\* The tokens that start with "k=", whatever follows.
RECURSIVE TokensKeyed(_, _)
TokensKeyed(toks, k) ==
  IF Len(toks) = 0 THEN <<>>
  ELSE IF IndexOf(toks[1], "=") # 0 /\ TokenKey(toks[1]) = k
       THEN <<toks[1]>> \o TokensKeyed(Tail(toks), k)
       ELSE TokensKeyed(Tail(toks), k)

FrequencyNames == {"DAILY", "WEEKLY", "MONTHLY", "YEARLY"}

\* The input holds a FREQ token whose value is a frequency name in any
\* letter case.
HasValidFreqToken(s) ==
  \E i \in 1..Len(ValuesOf(Tokens(s), "FREQ")) :
    ToLocaleUpperCase(ValuesOf(Tokens(s), "FREQ")[i]) \in FrequencyNames

\* The iCalendar code of a day number, and back.
CodeOfDay(d) ==
  CASE d = 0 -> "SU" [] d = 1 -> "MO" [] d = 2 -> "TU" [] d = 3 -> "WE"
    [] d = 4 -> "TH" [] d = 5 -> "FR" [] d = 6 -> "SA"

DayCodes == {CodeOfDay(d) : d \in 0..6}
DayOfCode(c) == CHOOSE d \in 0..6 : CodeOfDay(d) = c

\* The day numbers of the entries of a BYDAY value that are day codes.
RECURSIVE KeptDays(_)
KeptDays(entries) ==
  IF Len(entries) = 0 THEN <<>>
  ELSE IF entries[1] \in DayCodes
       THEN <<DayOfCode(entries[1])>> \o KeptDays(Tail(entries))
       ELSE KeptDays(Tail(entries))

\* The codes of the entries of a weekDays sequence that lie in 0..6.
RECURSIVE CodesOf(_)
CodesOf(days) ==
  IF Len(days) = 0 THEN <<>>
  ELSE IF days[1] \in 0..6
       THEN <<CodeOfDay(days[1])>> \o CodesOf(Tail(days))
       ELSE CodesOf(Tail(days))

\* An 8-character value that names a real calendar date.
NamesRealDate(v) ==
  /\ Len(v) = 8
  /\ AllDigits(v)
  /\ DigitsPrefix(SubSeq(v, 5, 6), 0) \in 1..12
  /\ DigitsPrefix(SubSeq(v, 7, 8), 0) \in
       1..DaysInMonth(DigitsPrefix(SubSeq(v, 1, 4), 0),
                      DigitsPrefix(SubSeq(v, 5, 6), 0))

\* The calendar day an 8-digit value names.
NamedDay(v) ==
  [y |-> DigitsPrefix(SubSeq(v, 1, 4), 0),
   m |-> DigitsPrefix(SubSeq(v, 5, 6), 0),
   d |-> DigitsPrefix(SubSeq(v, 7, 8), 0)]

Absent(x) == x = Null \/ x = Undefined

(***************************************************************************)
(* C1. Round trip: for every rule with a valid frequency, interval >= 1,   *)
(* distinct weekDays in 0..6, endDate absent or a valid date and count     *)
(* absent or positive, decoding the encoded rule gives the rule back       *)
(* field by field (the same calendar day for endDate, null when absent).   *)
(***************************************************************************)
C1Scope(r) ==
  /\ r.frequency \in Frequencies
  /\ r.interval >= 1
  /\ \A i \in 1..Len(r.weekDays) : r.weekDays[i] \in 0..6
  /\ \A i, j \in 1..Len(r.weekDays) : i # j => r.weekDays[i] # r.weekDays[j]
  /\ (Absent(r.endDate) \/ r.endDate.t = "date")
  /\ (Absent(r.count) \/ (r.count.t = "num" /\ r.count.v >= 1))

SameEndDay(a, b, zone) ==
  IF Absent(a) THEN b = Null
  ELSE b.t = "date" /\ LocalDay(a, zone) = LocalDay(b, zone)

\* C1: decode(encode(rule)) equals rule, field by field, for rules in scope.
C1_RoundTrip ==
  (pc = "roundtrip" /\ C1Scope(rule)) =>
    /\ result.t = "rule"
    /\ result.v.frequency = rule.frequency
    /\ result.v.interval = rule.interval
    /\ result.v.weekDays = rule.weekDays
    /\ SameEndDay(rule.endDate, result.v.endDate, tz)
    /\ (IF Absent(rule.count) THEN result.v.count = Null
        ELSE result.v.count = rule.count)

(***************************************************************************)
(* C2. For a rule whose endDate is a valid date the encoder emits exactly  *)
(* one UNTIL token, whose value is the eight digits YYYYMMDD of the end    *)
(* date; for an absent, null or invalid endDate it emits none.             *)
(***************************************************************************)
C2_UntilIsEightDigits ==
  Encoded =>
    LET untils == TokensKeyed(Tokens(text), "UNTIL")
    IN  IF rule.endDate.t = "date"
        THEN /\ Len(untils) = 1
             /\ untils[1] = "UNTIL=" \o Stamp(LocalDay(rule.endDate, tz))
        ELSE Len(untils) = 0

(***************************************************************************)
(* C3. Decoding raises the 'frequency is required' error if and only if    *)
(* the input holds no FREQ token whose value is one of the four            *)
(* frequencies: no other token, however malformed, makes it raise.         *)
(***************************************************************************)
C3_RaisesIffNoValidFreq ==
  Decoded => ((result = Thrown) <=> ~HasValidFreqToken(text))

\* "RRULE:INTERVAL=2" has been decoded, and decoding raised.
C3_Witness ==
  pc = "decoded" /\ text = "RRULE:INTERVAL=2" /\ result = Thrown

(***************************************************************************)
(* C4. With a valid FREQ token in the input, a malformed INTERVAL, BYDAY,  *)
(* UNTIL or COUNT token has the effect of an absent one: the result is     *)
(* the result of decoding the input without that token.                    *)
(***************************************************************************)
\* A value parseInt reads no positive integer from.
NoPositiveInteger(v) == ParseInt(v) = NaN \/ ParseInt(v).v <= 0

\* A token the specification calls malformed: a bad interval, no valid
\* weekday code, a bad until-date, a bad count.
Malformed(tok) ==
  /\ IndexOf(tok, "=") # 0
  /\ TokenValue(tok) # ""
  /\ \/ TokenKey(tok) = "INTERVAL" /\ NoPositiveInteger(TokenValue(tok))
     \/ TokenKey(tok) = "COUNT" /\ NoPositiveInteger(TokenValue(tok))
     \/ TokenKey(tok) = "BYDAY"
          /\ KeptDays(Split(TokenValue(tok), ",")) = <<>>
     \/ TokenKey(tok) = "UNTIL" /\ ~NamesRealDate(TokenValue(tok))

\* The sequence without its i-th element.
Without(seq, i) == SubSeq(seq, 1, i - 1) \o SubSeq(seq, i + 1, Len(seq))

\* C4: removing a malformed token from the input leaves the result unchanged.
C4_MalformedTokenAsAbsent ==
  (pc = "decoded" /\ HasValidFreqToken(text)) =>
    \A i \in 1..Len(Tokens(text)) :
      Malformed(Tokens(text)[i]) =>
        result = stringToRecurrenceRule(
                   Join(Without(Tokens(text), i), ";"), engine)

(***************************************************************************)
(* C5. The decoded weekDays are the entries of the BYDAY value that are    *)
(* one of SU..SA, in their order, as 0..6; every other entry is dropped    *)
(* without error, and with no valid entry weekDays is empty. Where the     *)
(* input repeats BYDAY, the last token that has a valid entry decides.     *)
(***************************************************************************)
\* The non-empty KeptDays of the BYDAY values, in order.
RECURSIVE KeptPerToken(_)
KeptPerToken(values) ==
  IF Len(values) = 0 THEN <<>>
  ELSE IF KeptDays(Split(values[1], ",")) # <<>>
       THEN <<KeptDays(Split(values[1], ","))>> \o KeptPerToken(Tail(values))
       ELSE KeptPerToken(Tail(values))

ExpectedWeekDays(s) ==
  LET kept == KeptPerToken(ValuesOf(Tokens(s), "BYDAY"))
  IN  IF Len(kept) = 0 THEN <<>> ELSE kept[Len(kept)]

KeyRank(k) ==
  CASE k = "FREQ" -> 1 [] k = "INTERVAL" -> 2 [] k = "BYDAY" -> 3
    [] k = "UNTIL" -> 4 [] k = "COUNT" -> 5 [] OTHER -> 0

\* C8: "RRULE:", FREQ=<NAME> first, known keys in strictly increasing rank.
C8_TokenOrder ==
  Encoded =>
    /\ Len(text) >= 6 /\ SubSeq(text, 1, 6) = "RRULE:"
    /\ LET toks == Split(SubSeq(text, 7, Len(text)), ";")
       IN  /\ \A i \in 1..Len(toks) :
                IndexOf(toks[i], "=") # 0 /\ KeyRank(TokenKey(toks[i])) # 0
           /\ TokenKey(toks[1]) = "FREQ"
           /\ SubSeq(toks[1], 6, Len(toks[1])) \in FrequencyNames
           /\ \A i, j \in 1..Len(toks) :
                i < j => KeyRank(TokenKey(toks[i])) < KeyRank(TokenKey(toks[j]))

\* A rule with all five tokens has been encoded.
C8_Witness ==
  /\ pc = "encoded"
  /\ Len(Split(text, ";")) = 5
  /\ TokenKey(Split(text, ";")[5]) = "COUNT"

(***************************************************************************)
(* C9. Every rule the decoder returns has a frequency among the four, an   *)
(* interval >= 1, weekDays entries in 0..6, a count that is null or >= 1   *)
(* and an endDate that is null or a valid date; an INTERVAL of 0 or below  *)
(* leaves the interval 1 and a COUNT of 0 or below leaves the count null.  *)
(***************************************************************************)
\* "0" or a negative integer literal.
NonPositiveLiteral(v) ==
  \/ v = "0"
  \/ Len(v) >= 2 /\ Head(v) = "-" /\ AllDigits(Tail(v))

OnlyNonPositive(s, k) ==
  /\ Len(ValuesOf(Tokens(s), k)) > 0
  /\ \A i \in 1..Len(ValuesOf(Tokens(s), k)) :
       NonPositiveLiteral(ValuesOf(Tokens(s), k)[i])

\* C9: every returned rule satisfies the RecurrenceRule invariants.
C9_DecodedRuleWellFormed ==
  (Decoded /\ result.t = "rule") =>
    /\ result.v.frequency \in Frequencies
    /\ result.v.interval \in Int /\ result.v.interval >= 1
    /\ \A i \in 1..Len(result.v.weekDays) : result.v.weekDays[i] \in 0..6
    /\ (result.v.count = Null
          \/ (result.v.count.t = "num" /\ result.v.count.v >= 1))
    /\ (result.v.endDate = Null \/ result.v.endDate.t = "date")
    /\ OnlyNonPositive(text, "INTERVAL") => result.v.interval = 1
    /\ OnlyNonPositive(text, "COUNT") => result.v.count = Null

\* A string with COUNT=0 and INTERVAL=0 has been decoded to the defaults.
C9_Witness ==
  /\ pc = "decoded"
  /\ text = "RRULE:FREQ=WEEKLY;COUNT=0;INTERVAL=0"
  /\ result.t = "rule"
  /\ result.v.interval = 1
  /\ result.v.count = Null

(***************************************************************************)
(* C10. An UNTIL value is accepted only if it is exactly 8 characters      *)
(* long; an accepted value that names a real calendar date yields an       *)
(* endDate with that year, month and day, and a value that names no real   *)
(* calendar date leaves endDate null rather than producing another date.   *)
(* The year, month and day are read in UTC, the reading the parser of a    *)
(* date-only string supports in every time zone.                           *)
(***************************************************************************)
C10_UntilRealDateOrNull ==
  (pc = "decoded" /\ result.t = "rule"
     /\ Len(ValuesOf(Tokens(text), "UNTIL")) = 1) =>
    LET v == ValuesOf(Tokens(text), "UNTIL")[1]
    IN  IF NamesRealDate(v)
        THEN /\ result.v.endDate.t = "date"
             /\ CivilFromDay(result.v.endDate.tm \div MinutesPerDay) = NamedDay(v)
        ELSE result.v.endDate = Null

(***************************************************************************)
(* C11. For every string that does not itself start with "RRULE:",         *)
(* decoding it and decoding it behind an added "RRULE:" have the same      *)
(* outcome: both raise or both return equal rules. Only one leading        *)
(* prefix is stripped: behind a second prefix the first token is keyed     *)
(* "RRULE:FREQ" and sets no frequency.                                     *)
(***************************************************************************)
C11_PrefixOptional ==
  /\ (pc = "decoded" /\ Body(text) = text) =>
       result = stringToRecurrenceRule("RRULE:" \o text, engine)
  /\ (pc = "decoded" /\ Body(Body(text)) # Body(text)
         /\ Len(Tokens(text)) = 1) =>
       result = Thrown

\* An unprefixed string has been decoded to a rule, as its prefixed twin.
C11_Witness ==
  /\ pc = "decoded"
  /\ text = "FREQ=DAILY;INTERVAL=2"
  /\ result.t = "rule"
  /\ result.v.frequency = "daily"
  /\ result.v.interval = 2
  /\ "RRULE:" \o text \in StoredStrings

(***************************************************************************)
(* C12. Each ';'-separated token is read as a key, the text before its     *)
(* first '=', and a value, the text between its first '=' and its second   *)
(* '=' (or the end of the token); what follows a second '=' is dropped,    *)
(* so "FREQ=DAILY=X" has the value "DAILY". A token with an empty key or   *)
(* an empty value is ignored. Decoding a string therefore gives the same   *)
(* outcome as decoding its tokens cut down to key=value with the ignored   *)
(* ones left out.                                                          *)
(***************************************************************************)
\* All the text after a token's first '='.
TokenRest(tok) ==
  IF IndexOf(tok, "=") = 0 THEN ""
  ELSE SubSeq(tok, IndexOf(tok, "=") + 1, Len(tok))

\* The tokens as read: key=value, without those that have no key or value.
RECURSIVE TokensAsRead(_)
TokensAsRead(toks) ==
  IF Len(toks) = 0 THEN <<>>
  ELSE IF TokenKey(toks[1]) = "" \/ TokenValue(toks[1]) = ""
       THEN TokensAsRead(Tail(toks))
       ELSE <<TokenKey(toks[1]) \o "=" \o TokenValue(toks[1])>>
              \o TokensAsRead(Tail(toks))

\* C12 as stated: the value is all the text after the first '=', so a
\* string whose FREQ tokens all carry such a value outside the four names
\* sets no frequency and decoding raises.
C12_ValueIsRestOfToken ==
  (pc = "decoded"
     /\ \A i \in 1..Len(Tokens(text)) :
          TokenKey(Tokens(text)[i]) = "FREQ" =>
            ToLocaleUpperCase(TokenRest(Tokens(text)[i])) \notin FrequencyNames)
    => result = Thrown

\* C12 amended: the value ends at the second '='.
C12_ValueUpToSecondEquals ==
  pc = "decoded" =>
    result = stringToRecurrenceRule(
               "RRULE:" \o Join(TokensAsRead(Tokens(text)), ";"), engine)

\* "FREQ=DAILY=X" has been decoded as a daily rule, "INTERVAL=2=3" as
\* an interval of 2.
C12_Witness ==
  /\ pc = "decoded"
  /\ text \in {"FREQ=DAILY=X", "RRULE:FREQ=WEEKLY;INTERVAL=2=3"}
  /\ result.t = "rule"
  /\ \/ text = "FREQ=DAILY=X" /\ result.v.frequency = "daily"
     \/ text = "RRULE:FREQ=WEEKLY;INTERVAL=2=3" /\ result.v.interval = 2

(***************************************************************************)
(* C13. A FREQ value is matched case-insensitively: any upper/lower-case   *)
(* spelling of DAILY, WEEKLY, MONTHLY or YEARLY sets the frequency to the  *)
(* lowercase name, and any other value leaves the frequency as it was, so  *)
(* the decoded frequency is the lowercase name of the last FREQ value      *)
(* that spells one of the four, and decoding raises when there is none.    *)
(***************************************************************************)
\* The lowercase frequency name a value spells, "" when it spells none.
FrequencySpelled(v) ==
  LET u == ToLocaleUpperCase(v)
  IN  CASE u = "DAILY" -> "daily" [] u = "WEEKLY" -> "weekly"
        [] u = "MONTHLY" -> "monthly" [] u = "YEARLY" -> "yearly"
        [] OTHER -> ""

\* The name spelled by the last value that spells one, "" when none does.
RECURSIVE LastFrequencySpelled(_)
LastFrequencySpelled(values) ==
  IF Len(values) = 0 THEN ""
  ELSE IF FrequencySpelled(values[Len(values)]) # ""
       THEN FrequencySpelled(values[Len(values)])
       ELSE LastFrequencySpelled(SubSeq(values, 1, Len(values) - 1))

C13_FreqCaseInsensitive ==
  pc = "decoded" =>
    LET name == LastFrequencySpelled(ValuesOf(Tokens(text), "FREQ"))
    IN  IF name = "" THEN result = Thrown
        ELSE result.t = "rule" /\ result.v.frequency = name

\* A mixed-case spelling after a valid FREQ has set the frequency, or an
\* unknown value after it has left it alone.
C13_Witness ==
  /\ pc = "decoded"
  /\ \/ text = "RRULE:FREQ=WEEKLY;FREQ=yEaRlY" /\ result.t = "rule"
          /\ result.v.frequency = "yearly"
     \/ text = "RRULE:FREQ=Monthly;FREQ=bogus" /\ result.t = "rule"
          /\ result.v.frequency = "monthly"

(***************************************************************************)
(* Vocabulary of the description properties.                               *)
(***************************************************************************)
Described == pc = "described" /\ result.t = "str"

LongNameOfDay(d) ==
  CASE d = 0 -> "Sunday" [] d = 1 -> "Monday" [] d = 2 -> "Tuesday"
    [] d = 3 -> "Wednesday" [] d = 4 -> "Thursday" [] d = 5 -> "Friday"
    [] d = 6 -> "Saturday"

ShortNameOfDay(d) ==
  CASE d = 0 -> "Sun" [] d = 1 -> "Mon" [] d = 2 -> "Tue" [] d = 3 -> "Wed"
    [] d = 4 -> "Thu" [] d = 5 -> "Fri" [] d = 6 -> "Sat"

\* The short names of a non-empty sequence of days, in its order.
RECURSIVE ShortNamesInOrder(_)
ShortNamesInOrder(days) ==
  IF Len(days) = 1 THEN ShortNameOfDay(days[1])
  ELSE ShortNameOfDay(days[1]) \o ", " \o ShortNamesInOrder(Tail(days))

HasPrefix(s, p) == Len(s) >= Len(p) /\ SubSeq(s, 1, Len(p)) = p
HasSuffix(s, p) ==
  Len(s) >= Len(p) /\ SubSeq(s, Len(s) - Len(p) + 1, Len(s)) = p

\* s is the base phrase b followed by nothing or by an end condition.
BaseIs(s, b) ==
  /\ HasPrefix(s, b)
  /\ LET rest == SubSeq(s, Len(b) + 1, Len(s))
     IN  \/ rest = ""
         \/ HasPrefix(rest, " until ")
         \/ HasPrefix(rest, ", ") /\ HasSuffix(rest, " times")

\* The rule has weekDays, all in 0..6, and at least n of them.
DaysInRange(r, n) ==
  /\ HasWeekDays(r)
  /\ Len(r.weekDays) >= n
  /\ \A i \in 1..Len(r.weekDays) : r.weekDays[i] \in 0..6

\* The rule has no end condition.
NoEndCondition(r) ==
  /\ r.endDate.t \notin {"date", "invaliddate"}
  /\ ~(r.count.t = "num" /\ r.count.v > 0)

UnitOf(f) ==
  CASE f = "daily" -> "day" [] f = "weekly" -> "week"
    [] f = "monthly" -> "month" [] f = "yearly" -> "year"

C16_PlainPhrase ==
  (Described /\ WeekDaysLength(rule) = 0 /\ NoEndCondition(rule)
     /\ rule.interval >= 1) =>
    result.v = IF rule.interval = 1 THEN "Every " \o UnitOf(rule.frequency)
               ELSE "Every " \o ToString(rule.interval) \o " "
                      \o UnitOf(rule.frequency) \o "s"

\* A monthly rule at the largest interval has been described.
C16_Witness ==
  /\ pc = "described"
  /\ rule.frequency = "monthly"
  /\ rule.interval = MaxInterval
  /\ NoEndCondition(rule)
  /\ result = Str("Every " \o ToString(MaxInterval) \o " months")

(***************************************************************************)
(* C17. For a weekly rule with interval > 1 and two or more weekdays the   *)
(* base phrase is replaced entirely by " on <short names, comma-joined>": *)
(* the description starts with " on " and has no "Every N weeks" in       *)
(* front.                                                                  *)
(***************************************************************************)
C17_SeveralDaysDropInterval ==
  (Described /\ rule.frequency = "weekly" /\ rule.interval > 1
     /\ HasWeekDays(rule) /\ Len(rule.weekDays) >= 2) =>
    /\ HasPrefix(result.v, " on ")
    /\ ~HasPrefix(result.v, "Every")
    /\ DaysInRange(rule, 2) =>
         LET base == " on " \o ShortNamesInOrder(rule.weekDays)
         IN  /\ BaseIs(result.v, base)
             /\ NoEndCondition(rule) => result.v = base

\* Friday and Sunday every other week have been described without the
\* interval.
C17_Witness ==
  /\ pc = "described"
  /\ rule = MkRule("weekly", 2, <<5, 0>>, Null, Null)
  /\ result = Str(" on Fri, Sun")

(***************************************************************************)
(* C18. The suffix after the base phrase is " until <Month D, YYYY>" when  *)
(* endDate is set (a valid date), also when count is set as well, and     *)
(* then no "times" text appears; otherwise ", <n> times" when count is a  *)
(* positive integer n; otherwise nothing. The base phrase is the           *)
(* description of the rule without endDate and count.                      *)
(***************************************************************************)
\* "January 1, 2024" for the calendar day the date falls on in the zone.
MonthDayYear(date, zone) ==
  LET c == CivilFromDay((date.tm + zone) \div MinutesPerDay)
  IN  MonthLongNames[c.m] \o " " \o ToString(c.d) \o ", " \o ToString(c.y)

WellFormedTime(s) ==
  /\ Len(s) = 5
  /\ AllDigits(SubSeq(s, 1, 2))
  /\ CharAt(s, 3) = ":"
  /\ AllDigits(SubSeq(s, 4, 5))

\* The text of the hour part and of the minute part, "" when absent.
HourText(s) ==
  IF IndexOf(s, ":") = 0 THEN s ELSE SubSeq(s, 1, IndexOf(s, ":") - 1)
MinuteText(s) ==
  LET rest == IF IndexOf(s, ":") = 0 THEN ""
              ELSE SubSeq(s, IndexOf(s, ":") + 1, Len(s))
  IN  IF IndexOf(rest, ":") = 0 THEN rest
      ELSE SubSeq(rest, 1, IndexOf(rest, ":") - 1)

\* The part is absent or holds a letter: it is not a number.
NotANumber(p) ==
  \/ p = ""
  \/ \E i \in 1..Len(p) :
       IndexOf(UpperLetters \o LowerLetters, CharAt(p, i)) # 0

C20_ParseTimeIntegers ==
  pc \in {"parsed", "parsed in form"} =>
    /\ Len(parsed) = 2
    /\ \A i \in 1..2 : parsed[i].t = "num" /\ parsed[i].v \in Int
    /\ IF timeString.t # "str" \/ timeString.v = ""
       THEN parsed = <<Num(0), Num(0)>>
       ELSE IF WellFormedTime(timeString.v)
            THEN parsed = <<Num(DigitsPrefix(SubSeq(timeString.v, 1, 2), 0)),
                            Num(DigitsPrefix(SubSeq(timeString.v, 4, 5), 0))>>
            ELSE (NotANumber(HourText(timeString.v)) => parsed[1] = Num(0))
                   /\ (NotANumber(MinuteText(timeString.v))
                         => parsed[2] = Num(0))

(***************************************************************************)
(* Vocabulary of the time properties.                                      *)
(***************************************************************************)
\* A time of day "HH:mm" with HH in 00..23 and mm in 00..59.
IsTimeOfDay(x) ==
  /\ x.t = "str"
  /\ WellFormedTime(x.v)
  /\ DigitsPrefix(SubSeq(x.v, 1, 2), 0) <= 23
  /\ DigitsPrefix(SubSeq(x.v, 4, 5), 0) <= 59

\* The minute of the day "HH:mm" names.
MinuteOfDay(x) ==
  60 * DigitsPrefix(SubSeq(x.v, 1, 2), 0) + DigitsPrefix(SubSeq(x.v, 4, 5), 0)

\* The local calendar day of a date and the minute of that day.
DayOf(date, zone) == (date.tm + zone) \div (24 * 60)
MinuteOf(date, zone) == (date.tm + zone) % (24 * 60)

\* The instant of a minute of a local day, seconds and milliseconds 0.
AtMinute(day, minute, zone) == MkDate(day * 24 * 60 + minute - zone, 0)

(***************************************************************************)
(* C21. For every date d and well-formed time "HH:mm",                     *)
(* createDateWithTime(d, time) returns a timestamp with the calendar       *)
(* year, month and day of d, hour HH, minute mm, seconds 0 and             *)
(* milliseconds 0, and leaves the date object d as it was.                 *)
(***************************************************************************)
C21_DateWithTime ==
  [][(pc = "dated" /\ pc' \in {"created", "created in form"}
        /\ startDate.t = "date" /\ IsTimeOfDay(timeString)) =>
       /\ made'.t = "date"
       /\ CivilFromDay(DayOf(made', tz)) = CivilFromDay(DayOf(startDate, tz))
       /\ MinuteOf(made', tz) = MinuteOfDay(timeString)
       /\ made'.ms = 0
       /\ startDate' = startDate]_vars

\* A date with seconds and milliseconds has been given the time 09:05.
C21_Witness ==
  /\ pc \in {"created", "created in form"}
  /\ timeString = Str("09:05")
  /\ startDate = LocalDateTime(2024, 2, 29, 13, 37, 42, 123, tz)
  /\ made = LocalDateTime(2024, 2, 29, 9, 5, 0, 0, tz)

(***************************************************************************)
(* C22. For every start date, start time "HH:mm" and each of the five      *)
(* duration tokens, calculateEndTimeFromDuration returns                   *)
(* createDateWithTime(startDate, startTime) plus 30, 60, 90, 120 or 180    *)
(* minutes, rolling over to the next calendar day past midnight            *)
(* (2024-01-01 09:00 + duration_1h30m = 2024-01-01T10:30).                 *)
(***************************************************************************)
MinutesOfToken(token) ==
  CASE token = "duration_30m" -> 30 [] token = "duration_1h" -> 60
    [] token = "duration_1h30m" -> 90 [] token = "duration_2h" -> 120
    [] token = "duration_3h" -> 180

C22_EndFromDuration ==
  (pc \in {"calculated", "calculated in form"} /\ startDate.t = "date"
     /\ IsTimeOfDay(timeString)
     /\ selector \in {"duration_30m", "duration_1h", "duration_1h30m",
                       "duration_2h", "duration_3h"}) =>
    LET total == MinuteOfDay(timeString) + MinutesOfToken(selector)
    IN  /\ made = AtMinute(DayOf(startDate, tz), total, tz)
        /\ total >= 24 * 60 =>
             /\ DayOf(made, tz) = DayOf(startDate, tz) + 1
             /\ MinuteOf(made, tz) = total - 24 * 60

\* 09:00 plus an hour and a half on New Year's day, and 23:30 plus three
\* hours on New Year's eve.
C22_Witness ==
  /\ pc \in {"calculated", "calculated in form"}
  /\ \/ /\ timeString = Str("09:00")
        /\ selector = "duration_1h30m"
        /\ startDate = LocalDateTime(2024, 1, 1, 0, 0, 0, 0, tz)
        /\ made = LocalDateTime(2024, 1, 1, 10, 30, 0, 0, tz)
     \/ /\ timeString = Str("23:30")
        /\ selector = "duration_3h"
        /\ startDate = LocalDateTime(2023, 12, 31, 23, 59, 59, 999, tz)
        /\ made = LocalDateTime(2024, 1, 1, 2, 30, 0, 0, tz)

(***************************************************************************)
(* C23. For every end selector that starts with "duration_" and is not    *)
(* one of the five known tokens, calculateEndTimeFromDuration returns      *)
(* the base timestamp createDateWithTime(startDate, startTime) unchanged   *)
(* and does not raise; the selector is never read as a time of day.        *)
(***************************************************************************)
C23_UnknownDuration ==
  (pc \in {"calculated", "calculated in form"}
     /\ HasPrefix(selector, "duration_")
     /\ selector \notin {"duration_30m", "duration_1h", "duration_1h30m",
                          "duration_2h", "duration_3h"}) =>
    /\ made = createDateWithTime(startDate, timeString, tz)
    /\ made.t \in {"date", "invaliddate"}
    /\ (startDate.t = "date" /\ IsTimeOfDay(timeString)) =>
         made = AtMinute(DayOf(startDate, tz), MinuteOfDay(timeString), tz)

\* "duration_5h" has given the base date back.
C23_Witness ==
  /\ pc \in {"calculated", "calculated in form"}
  /\ selector = "duration_5h"
  /\ timeString = Str("12:30")
  /\ startDate = LocalDateTime(2024, 2, 29, 13, 37, 42, 123, tz)
  /\ made = LocalDateTime(2024, 2, 29, 12, 30, 0, 0, tz)

(***************************************************************************)
(* The event form and its effects                                          *)
(***************************************************************************)
\* The slots the form opens on: a slot of the calendar, late in the
\* evening or in the morning, or the hour after the present moment.
OpeningSlots(zone) ==
  {<<LocalDateTime(2024, 1, 1, 9, 0, 0, 0, zone),
     LocalDateTime(2024, 1, 1, 10, 0, 0, 0, zone)>>,
   <<LocalDateTime(2024, 2, 29, 22, 0, 0, 0, zone),
     LocalDateTime(2024, 2, 29, 23, 0, 0, 0, zone)>>,
   <<LocalDateTime(2024, 3, 4, 13, 37, 42, 123, zone),
     LocalDateTime(2024, 3, 4, 14, 37, 42, 123, zone)>>}

\* The default values of the form for a slot.
DefaultValues(slot, zone) ==
  [start |-> slot[1], end |-> slot[2], allDay |-> FALSE,
   startTime |-> Str(FormatHHmm(slot[1], zone)),
   endTime |-> Str(FormatHHmm(slot[2], zone))]

\* The options of the time selects the user picks from, and the days of
\* the date pickers.
StartTimeChoices == {"09:00", "22:00", "23:30"}
EndTimeChoices == {"00:30", "10:00", "23:30"}
PickerDays == {DayFromCivil(2024, 1, 1), DayFromCivil(2024, 2, 29)}

\* Nothing is left to run and nothing was set since the last render.
Settled == pc = "form" /\ toRun = {} /\ changed = {}

\* The form mounts: the default values are rendered and both effects run.
OpenForm ==
  /\ pc = "idle"
  /\ \E slot \in OpeningSlots(tz) :
       /\ form' = DefaultValues(slot, tz)
       /\ watched' = DefaultValues(slot, tz)
  /\ toRun' = DOMAIN EffectDeps
  /\ changed' = {}
  /\ chosen' = ""
  /\ pc' = "form"
  /\ UNCHANGED <<tz, engine, codecVars, timeVars, eventVars>>
  /\ UNCHANGED recurrenceVars
  /\ UNCHANGED apiVars
  /\ UNCHANGED pageVars

\* The user picks a start time.
SelectStartTime ==
  /\ Settled
  /\ ~watched.allDay
  /\ \E time \in StartTimeChoices :
       /\ Str(time) # form.startTime
       /\ form' = [form EXCEPT !.startTime = Str(time)]
  /\ changed' = {"startTime"}
  /\ chosen' = ""
  /\ UNCHANGED <<tz, engine, pc, codecVars, timeVars, eventVars, watched,
                 toRun>>
  /\ UNCHANGED recurrenceVars
  /\ UNCHANGED apiVars
  /\ UNCHANGED pageVars

\* The user picks an end: a duration, or one of the times offered.
SelectEndTime ==
  /\ Settled
  /\ ~watched.allDay
  /\ \E value \in DurationKeys \cup endTimeOptions(watched, EndTimeChoices, tz) :
       /\ Str(value) # form.endTime
       /\ form' = [form EXCEPT !.endTime = Str(value)]
       /\ chosen' = IF value \in DurationKeys THEN value ELSE ""
  /\ changed' = {"endTime"}
  /\ UNCHANGED <<tz, engine, pc, codecVars, timeVars, eventVars, watched,
                 toRun>>
  /\ UNCHANGED recurrenceVars
  /\ UNCHANGED apiVars
  /\ UNCHANGED pageVars

\* The user picks another start day.
SelectStartDay ==
  /\ Settled
  /\ \E day \in PickerDays :
       /\ day # LocalDay(form.start, tz)
       /\ form' = [form EXCEPT !.start = PickedDate(day, tz)]
  /\ changed' = {"start"}
  /\ chosen' = ""
  /\ UNCHANGED <<tz, engine, pc, codecVars, timeVars, eventVars, watched,
                 toRun>>
  /\ UNCHANGED recurrenceVars
  /\ UNCHANGED apiVars
  /\ UNCHANGED pageVars

\* The user picks another end day, not before the start.
SelectEndDay ==
  /\ Settled
  /\ ~watched.allDay
  /\ \E day \in PickerDays :
       /\ day # LocalDay(form.end, tz)
       /\ ~DateAfter(watched.start, PickedDate(day, tz))
       /\ form' = [form EXCEPT !.end = PickedDate(day, tz)]
  /\ changed' = {"end"}
  /\ chosen' = ""
  /\ UNCHANGED <<tz, engine, pc, codecVars, timeVars, eventVars, watched,
                 toRun>>
  /\ UNCHANGED recurrenceVars
  /\ UNCHANGED apiVars
  /\ UNCHANGED pageVars

\* The user switches All Day: switching it on sets the start to the first
\* and the end to the last instant of their days.
ToggleAllDay ==
  /\ Settled
  /\ IF form.allDay
     THEN /\ form' = [form EXCEPT !.allDay = FALSE]
          /\ changed' = {"allDay"}
     ELSE /\ form' = [form EXCEPT
                        !.allDay = TRUE,
                        !.start = SetHoursFull(form.start, Num(0), Num(0), 0, 0, tz),
                        !.end = WholeDayEnd(form.end, tz)]
          /\ changed' = {"allDay", "start", "end"}
  /\ chosen' = ""
  /\ UNCHANGED <<tz, engine, pc, codecVars, timeVars, eventVars, watched,
                 toRun>>
  /\ UNCHANGED recurrenceVars
  /\ UNCHANGED apiVars
  /\ UNCHANGED pageVars

\* The form renders again with the values set since the last render; the
\* effects with a changed dependency are to run.
Render ==
  /\ pc = "form"
  /\ toRun = {}
  /\ changed # {}
  /\ watched' = form
  /\ toRun' = EffectsToRun(changed)
  /\ changed' = {}
  /\ UNCHANGED <<tz, engine, pc, codecVars, timeVars, eventVars, form, chosen>>
  /\ UNCHANGED recurrenceVars
  /\ UNCHANGED apiVars
  /\ UNCHANGED pageVars

\* The effect on the start runs, before the effect on the end.
RunStartEffect ==
  /\ pc = "form"
  /\ "start" \in toRun
  /\ \E effect \in {StartEffect(watched, form, tz)} :
       /\ form' = effect.values
       /\ changed' = changed \cup effect.fields
  /\ toRun' = toRun \ {"start"}
  /\ UNCHANGED <<tz, engine, pc, codecVars, timeVars, eventVars, watched,
                 chosen>>
  /\ UNCHANGED recurrenceVars
  /\ UNCHANGED apiVars
  /\ UNCHANGED pageVars

\* The effect on the end runs.
RunEndEffect ==
  /\ pc = "form"
  /\ toRun = {"end"}
  /\ \E effect \in {EndEffect(watched, form, tz)} :
       /\ form' = effect.values
       /\ changed' = changed \cup effect.fields
  /\ toRun' = {}
  /\ UNCHANGED <<tz, engine, pc, codecVars, timeVars, eventVars, watched,
                 chosen>>
  /\ UNCHANGED recurrenceVars
  /\ UNCHANGED apiVars
  /\ UNCHANGED pageVars

FormUpdate == Render \/ RunStartEffect \/ RunEndEffect

FormNext ==
  \/ OpenForm \/ SelectStartTime \/ SelectEndTime \/ SelectStartDay
  \/ SelectEndDay \/ ToggleAllDay
  \/ Render \/ RunStartEffect \/ RunEndEffect

FormSpec == Init /\ [][FormNext]_vars

\* A render or an effect is due.
Pending == pc = "form" /\ (toRun # {} \/ changed # {})

\* React runs a render that is due and the effects of a commit: weak
\* fairness of FormUpdate, with its enabling condition written out as
\* Pending.
FormFairSpec == FormSpec /\ ([]<>~Pending \/ []<><<FormUpdate>>_vars)

(***************************************************************************)
(* The recurrence input                                                    *)
(***************************************************************************)
\* The recurrence the form holds when the input mounts: none for a new
\* event, or the string of the event being edited.
StoredRecurrences ==
  {Undefined, Str("RRULE:FREQ=WEEKLY;COUNT=2")}

\* The start dates of the form the presets are made for.
PresetStarts(zone) ==
  {LocalDateTime(2024, 3, 4, 9, 0, 0, 0, zone)}

\* What the user types into the number inputs, the week days the user
\* toggles, the frequencies the user picks, and the end dates the calendar
\* offers (the days after the present one, or none on deselecting).
TypedNumbers == {"2", ""}
ToggledDays == {3}
PickedFrequencies == {"weekly", "monthly"}
OfferedEndDates(zone) ==
  {PickedDate(DayFromCivil(2024, 3, 6), zone), Undefined}

InRecurrenceInput == pc \in {"recurrence", "preset chosen", "rule submitted"}

\* The input mounts with the form's recurrence.
MountRecurrenceInput ==
  /\ pc = "idle"
  /\ \E stored \in StoredRecurrences :
       /\ RecurrenceProp(stored, engine) # Thrown
       /\ recurrenceField' = stored
       /\ customRule' = InitialCustomRule(RecurrenceProp(stored, engine))
       /\ selectedPreset' =
            IF RecurrenceProp(stored, engine) # Undefined THEN "custom" ELSE "none"
       /\ endType' = InitialEndType(RecurrenceProp(stored, engine))
  /\ isCustomDialogOpen' = FALSE
  /\ pc' = "recurrence"
  /\ UNCHANGED <<tz, engine, codecVars, timeVars, eventVars, effectVars>>
  /\ UNCHANGED apiVars
  /\ UNCHANGED pageVars

\* handlePresetChange('custom'): the dialog opens.
ChooseCustom ==
  /\ InRecurrenceInput
  /\ ~isCustomDialogOpen
  /\ selectedPreset' = "custom"
  /\ isCustomDialogOpen' = TRUE
  /\ pc' = "recurrence"
  /\ UNCHANGED <<tz, engine, codecVars, timeVars, eventVars, effectVars,
                 recurrenceField, customRule, endType>>
  /\ UNCHANGED apiVars
  /\ UNCHANGED pageVars

\* handlePresetChange(value) for the other options: the preset's rule is
\* encoded into the form, or null for 'none'.
ChoosePreset ==
  /\ InRecurrenceInput
  /\ ~isCustomDialogOpen
  /\ \E value \in PresetValues \ {"custom"}, formStart \in PresetStarts(tz) :
       LET presets == PresetRules(WeekDayOfDay(LocalDay(formStart, tz)))
       IN  /\ selectedPreset' = value
           /\ recurrenceField' =
                IF value \in DOMAIN presets
                THEN Str(recurrenceRuleToString(presets[value], tz))
                ELSE Null
  /\ pc' = "preset chosen"
  /\ UNCHANGED <<tz, engine, codecVars, timeVars, eventVars, effectVars,
                 customRule, endType, isCustomDialogOpen>>
  /\ UNCHANGED apiVars
  /\ UNCHANGED pageVars

\* The settings button next to the select opens the dialog.
OpenCustomDialog ==
  /\ InRecurrenceInput
  /\ ~isCustomDialogOpen
  /\ selectedPreset = "custom"
  /\ isCustomDialogOpen' = TRUE
  /\ pc' = "recurrence"
  /\ UNCHANGED <<tz, engine, codecVars, timeVars, eventVars, effectVars,
                 recurrenceField, customRule, selectedPreset, endType>>
  /\ UNCHANGED apiVars
  /\ UNCHANGED pageVars

\* The dialog is dismissed (onOpenChange).
DismissCustomDialog ==
  /\ InRecurrenceInput
  /\ isCustomDialogOpen
  /\ isCustomDialogOpen' = FALSE
  /\ pc' = "recurrence"
  /\ UNCHANGED <<tz, engine, codecVars, timeVars, eventVars, effectVars,
                 recurrenceField, customRule, selectedPreset, endType>>
  /\ UNCHANGED apiVars
  /\ UNCHANGED pageVars

\* The interval input changes.
TypeInterval ==
  /\ InRecurrenceInput
  /\ isCustomDialogOpen
  /\ \E typed \in TypedNumbers :
       customRule' = [customRule EXCEPT !.interval = ParseIntOrOne(typed)]
  /\ pc' = "recurrence"
  /\ UNCHANGED <<tz, engine, codecVars, timeVars, eventVars, effectVars,
                 recurrenceField, selectedPreset, endType, isCustomDialogOpen>>
  /\ UNCHANGED apiVars
  /\ UNCHANGED pageVars

\* The frequency select changes.
PickFrequency ==
  /\ InRecurrenceInput
  /\ isCustomDialogOpen
  /\ \E value \in PickedFrequencies :
       customRule' = [customRule EXCEPT !.frequency = value]
  /\ pc' = "recurrence"
  /\ UNCHANGED <<tz, engine, codecVars, timeVars, eventVars, effectVars,
                 recurrenceField, selectedPreset, endType, isCustomDialogOpen>>
  /\ UNCHANGED apiVars
  /\ UNCHANGED pageVars

\* A week day button is pressed (shown for the weekly frequency).
ToggleWeekDay ==
  /\ InRecurrenceInput
  /\ isCustomDialogOpen
  /\ customRule.frequency = "weekly"
  /\ \E day \in ToggledDays :
       customRule' =
         [customRule EXCEPT !.weekDays = ToggledWeekDays(customRule.weekDays, day)]
  /\ pc' = "recurrence"
  /\ UNCHANGED <<tz, engine, codecVars, timeVars, eventVars, effectVars,
                 recurrenceField, selectedPreset, endType, isCustomDialogOpen>>
  /\ UNCHANGED apiVars
  /\ UNCHANGED pageVars

\* The end type radio changes.
PickEndType ==
  /\ InRecurrenceInput
  /\ isCustomDialogOpen
  /\ \E value \in {"never", "on", "after"} : endType' = value
  /\ pc' = "recurrence"
  /\ UNCHANGED <<tz, engine, codecVars, timeVars, eventVars, effectVars,
                 recurrenceField, customRule, selectedPreset,
                 isCustomDialogOpen>>
  /\ UNCHANGED apiVars
  /\ UNCHANGED pageVars

\* The calendar of end type 'on' selects a date or deselects it.
PickEndDate ==
  /\ InRecurrenceInput
  /\ isCustomDialogOpen
  /\ endType = "on"
  /\ \E date \in OfferedEndDates(tz) :
       customRule' = [customRule EXCEPT !.endDate = date]
  /\ pc' = "recurrence"
  /\ UNCHANGED <<tz, engine, codecVars, timeVars, eventVars, effectVars,
                 recurrenceField, selectedPreset, endType, isCustomDialogOpen>>
  /\ UNCHANGED apiVars
  /\ UNCHANGED pageVars

\* The count input of end type 'after' changes.
TypeCount ==
  /\ InRecurrenceInput
  /\ isCustomDialogOpen
  /\ endType = "after"
  /\ \E typed \in TypedNumbers :
       customRule' = [customRule EXCEPT !.count = Num(ParseIntOrOne(typed))]
  /\ pc' = "recurrence"
  /\ UNCHANGED <<tz, engine, codecVars, timeVars, eventVars, effectVars,
                 recurrenceField, selectedPreset, endType, isCustomDialogOpen>>
  /\ UNCHANGED apiVars
  /\ UNCHANGED pageVars

\* Done: handleCustomRuleSubmit encodes the custom rule into the form.
SubmitCustomRule ==
  /\ InRecurrenceInput
  /\ isCustomDialogOpen
  /\ customRule.frequency # ""
  /\ recurrenceField' =
       Str(recurrenceRuleToString(UpdatedRule(customRule, endType), tz))
  /\ isCustomDialogOpen' = FALSE
  /\ pc' = "rule submitted"
  /\ UNCHANGED <<tz, engine, codecVars, timeVars, eventVars, effectVars,
                 customRule, selectedPreset, endType>>
  /\ UNCHANGED apiVars
  /\ UNCHANGED pageVars

\* Cancel: handleCustomDialogCancel goes back to 'none' when the form holds
\* no recurrence.
CancelCustomDialog ==
  /\ InRecurrenceInput
  /\ isCustomDialogOpen
  /\ IF RecurrenceProp(recurrenceField, engine) = Undefined
        /\ selectedPreset = "custom"
     THEN /\ selectedPreset' = "none"
          /\ recurrenceField' = Null
          /\ pc' = "preset chosen"
     ELSE /\ pc' = "recurrence"
          /\ UNCHANGED <<selectedPreset, recurrenceField>>
  /\ isCustomDialogOpen' = FALSE
  /\ UNCHANGED <<tz, engine, codecVars, timeVars, eventVars, effectVars,
                 customRule, endType>>
  /\ UNCHANGED apiVars
  /\ UNCHANGED pageVars

RecurrenceNext ==
  \/ MountRecurrenceInput \/ ChooseCustom \/ ChoosePreset
  \/ OpenCustomDialog \/ DismissCustomDialog
  \/ TypeInterval \/ PickFrequency \/ ToggleWeekDay
  \/ PickEndType \/ PickEndDate \/ TypeCount
  \/ SubmitCustomRule \/ CancelCustomDialog

RecurrenceSpec == Init /\ [][RecurrenceNext]_vars

(***************************************************************************)
(* POST /api/v1/calendar                                                   *)
(***************************************************************************)
\* The bodies of the requests: the title and the recurrence by their
\* lengths.
PostBodies ==
  [title : {Text(0), Text(12)},
   meetingType : MeetingTypes,
   meetingLinkId : {Undefined, Num(7)},
   recurrence : {Undefined, Text(24), Text(VarcharLength + 1)}]

\* The handler is free to take a request: none was taken yet, or the last
\* one was answered and its inserts are through.
Free == pc \in {"idle", "answered"} /\ inflight = {}

\* A request arrives and the handler runs to its first await on the
\* database: 429 over the rate limit, 400 for a body the schema refuses,
\* else the inserts are sent.
HandlePost ==
  /\ Free
  /\ postId < MaxPosts
  /\ postId' = postId + 1
  /\ rejected' = {}
  /\ \E body \in PostBodies, limited \in BOOLEAN :
       /\ postBody' = body
       /\ IF limited
          THEN response' = 429 /\ pc' = "answered" /\ inflight' = {}
          ELSE IF ~CreateEventSchemaAccepts(body)
          THEN response' = 400 /\ pc' = "answered" /\ inflight' = {}
          ELSE response' = 0 /\ pc' = "awaiting" /\ inflight' = InsertsSent(body)
  /\ UNCHANGED <<tz, engine, codecVars, timeVars, eventVars, effectVars,
                 recurrenceVars, schedulesTable, linkTable>>
  /\ UNCHANGED pageVars

\* The database executes the insert into scheduleToLink.
InsertLinkRow ==
  /\ "link" \in inflight
  /\ linkTable' = linkTable \cup {postId}
  /\ inflight' = inflight \ {"link"}
  /\ UNCHANGED <<tz, engine, pc, codecVars, timeVars, eventVars, effectVars,
                 recurrenceVars, postBody, postId, rejected, response,
                 schedulesTable>>
  /\ UNCHANGED pageVars

\* The database executes the insert into schedules, or refuses it.
InsertScheduleRow ==
  /\ "schedule" \in inflight
  /\ IF ScheduleInsertFails(postBody)
     THEN /\ rejected' = rejected \cup {"schedule"}
          /\ UNCHANGED schedulesTable
     ELSE /\ schedulesTable' = schedulesTable \cup {postId}
          /\ UNCHANGED rejected
  /\ inflight' = inflight \ {"schedule"}
  /\ UNCHANGED <<tz, engine, pc, codecVars, timeVars, eventVars, effectVars,
                 recurrenceVars, postBody, postId, response, linkTable>>
  /\ UNCHANGED pageVars

\* The await on the inserts settles: the first rejection takes the handler
\* to its catch block and 500, whatever is still in flight; with every
\* insert through, the event is read back and answered with 201.
AnswerPost ==
  /\ pc = "awaiting"
  /\ IF rejected # {} THEN response' = 500
     ELSE inflight = {} /\ response' = 201
  /\ pc' = "answered"
  /\ UNCHANGED <<tz, engine, codecVars, timeVars, eventVars, effectVars,
                 recurrenceVars, postBody, postId, inflight, rejected,
                 schedulesTable, linkTable>>
  /\ UNCHANGED pageVars

ApiNext == HandlePost \/ InsertLinkRow \/ InsertScheduleRow \/ AnswerPost

ApiSpec == Init /\ [][ApiNext]_vars

(***************************************************************************)
(* The paginated responses                                                 *)
(***************************************************************************)
\* The pages a GET asks for: offset >= 0 and limit >= 1 of the query, and
\* the total the count query gives.
Pages == [offset : 0..MaxOffset, limit : 1..MaxLimit, total : 0..MaxTotal]

\* The number of rows the query with .limit(limit).offset(offset) returns.
RowsOfPage(p) ==
  IF p.offset >= p.total THEN 0
  ELSE IF p.total - p.offset < p.limit THEN p.total - p.offset ELSE p.limit

\* A GET asks for a page.
AskPage ==
  /\ pc = "idle"
  /\ \E p \in Pages : page' = p
  /\ pc' = "asked"
  /\ UNCHANGED <<tz, engine, codecVars, timeVars, eventVars, effectVars,
                 recurrenceVars, apiVars, paginated>>

\* The handler answers with createPaginatedResponse.
AnswerPage ==
  /\ pc = "asked"
  /\ paginated' = createPaginatedResponse(RowsOfPage(page), page)
  /\ pc' = "paged"
  /\ UNCHANGED <<tz, engine, codecVars, timeVars, eventVars, effectVars,
                 recurrenceVars, apiVars, page>>

PageNext == AskPage \/ AnswerPage

PageSpec == Init /\ [][PageNext]_vars

(***************************************************************************)
(* The all-day checks and the schema of the event form (EventSpec)         *)
(***************************************************************************)
Loaded == pc = "loaded"

\* The held start or end as a Date, when there is one.
HeldDate(x) == AsDate(x)

\* The event's start and end are there, on one local day, both at hour 0.
SameDayBothAtHourZero ==
  /\ event.start # Undefined /\ event.end # Undefined
  /\ LocalDay(HeldDate(event.start), tz) = LocalDay(HeldDate(event.end), tz)
  /\ ((HeldDate(event.start).tm + tz) % MinutesPerDay) \div MinutesPerHour = 0
  /\ ((HeldDate(event.end).tm + tz) % MinutesPerDay) \div MinutesPerHour = 0

\* C24: every all-day check (of the calendar hook, of the event-detail
\* panel and of the event form) answers the same for every start and end:
\* true exactly when both are there, fall on the same calendar day and
\* have hour-of-day 0, and false otherwise.
C24_AllDayChecksAgree ==
  Loaded =>
    \A site \in AllDaySites :
      allDay[site] # "none" =>
        allDay[site] = AnswerOf(SameDayBothAtHourZero)

Submitted == pc = "submitted"

\* The form values pass the checks of the single fields.
FieldsWellFormed ==
  /\ IsValidDate(formValues.start) /\ IsValidDate(formValues.end)
  /\ IsTimeOfDay(formValues.startTime) /\ IsTimeOfDay(formValues.endTime)

\* The start and the end the form values stand for: the dates at their
\* times, or the first and the last instant of their days.
StartMeant ==
  IF formValues.allDay THEN AtMinute(DayOf(formValues.start, tz), 0, tz)
  ELSE AtMinute(DayOf(formValues.start, tz),
                MinuteOfDay(formValues.startTime), tz)

EndMeant ==
  IF formValues.allDay
  THEN MkDate((DayOf(formValues.end, tz) + 1) * 24 * 60 - 1 - tz, 59999)
  ELSE AtMinute(DayOf(formValues.end, tz), MinuteOfDay(formValues.endTime), tz)

\* One instant is strictly later than another.
Later(a, b) == a.tm > b.tm \/ (a.tm = b.tm /\ a.ms > b.ms)

\* C26: every form value SidebarEventFormSchema accepts has, after the
\* transform, its end strictly later than its start, the start being the
\* start date at startTime and the end the end date at endTime with
\* seconds and milliseconds 0, or, when allDay is set, 00:00:00.000 of the
\* start date and 23:59:59.999 of the end date; values whose end is not
\* later than their start are rejected with the error on endTime.
C26_EndAfterStart ==
  Submitted =>
    /\ parseResult.t = "accepted" =>
         /\ FieldsWellFormed
         /\ parseResult.data.start = StartMeant
         /\ parseResult.data.end = EndMeant
         /\ Later(parseResult.data.end, parseResult.data.start)
    /\ FieldsWellFormed /\ ~Later(EndMeant, StartMeant) =>
         parseResult = Rejected({"endTime"})

\* Values of equal start and end were submitted and rejected, and whole
\* days were accepted.
C26_Witness ==
  /\ Submitted
  /\ \/ /\ FieldsWellFormed /\ ~formValues.allDay
        /\ EndMeant = StartMeant
        /\ parseResult = Rejected({"endTime"})
     \/ /\ formValues.allDay /\ parseResult.t = "accepted"
        /\ DayOf(formValues.start, tz) = DayOf(formValues.end, tz)

\* The loaded event was saved from form values with allDay set whose start
\* and end are on one calendar day.
SavedAsWholeDay ==
  /\ Loaded
  /\ parseResult.t = "accepted"
  /\ formValues.allDay
  /\ DayOf(formValues.start, tz) = DayOf(formValues.end, tz)

\* C27: an event saved through SidebarEventFormSchema with allDay set and
\* its start and end on one calendar day (stored as 00:00:00.000 and
\* 23:59:59.999 of that day) is classified as all-day again by
\* checkIfAllDay when it is loaded back, in the event-detail panel and
\* when the edit form is initialised.
C27_SavedAllDayStaysAllDay ==
  SavedAsWholeDay =>
    \A site \in {"detail", "form", "hook later"} :
      allDay[site] # "none" => allDay[site] = "true"

(***************************************************************************)
(* The effects of the event form (FormFairSpec)                            *)
(***************************************************************************)
\* The user chose a duration and nothing else since.
DurationChosen == pc = "form" /\ chosen # ""

\* The start date at the start time plus the minutes of the chosen
\* duration.
EndOfDuration ==
  LET minute == DayOf(form.start, tz) * 24 * 60 + MinuteOfDay(form.startTime)
                  + MinutesOfToken(chosen)
  IN  MkDate(minute - tz, 0)

\* The form's end is the one of the chosen duration and endTime its HH:mm.
EndIsOfDuration ==
  /\ form.end = EndOfDuration
  /\ form.endTime = Str(FormatHHmm(EndOfDuration, tz))

\* C25: with allDay off, after the user selects a duration as the end, the
\* effect on the end stops changing the form after finitely many runs, and
\* where it stops the form's end is createDateWithTime(start date,
\* startTime) plus the minutes of the duration, also past midnight, with
\* endTime the HH:mm of that end.
C25_DurationSettles ==
  /\ [](DurationChosen => <>Settled)
  /\ [](DurationChosen /\ Settled => EndIsOfDuration)

(***************************************************************************)
(* The recurrence input (RecurrenceSpec)                                   *)
(***************************************************************************)
\* The form holds no recurrence.
NoRecurrence == recurrenceField \in {Null, Undefined}

\* The form's recurrence string has a token of the key.
FieldHasToken(key) ==
  /\ ~NoRecurrence
  /\ TokensKeyed(Tokens(recurrenceField.v), key) # <<>>

\* C28: after any sequence of edits in the recurrence input, the recurrence
\* the form holds is null (or not set) or a string that
\* stringToRecurrenceRule decodes without raising, and it never has both an
\* UNTIL and a COUNT token: Done with end type 'on' writes no COUNT, with
\* 'after' no UNTIL, with 'never' neither, and a preset writes neither.
C28_RecurrenceFieldWellFormed ==
  InRecurrenceInput =>
    /\ NoRecurrence
         \/ /\ recurrenceField.t = "str"
            /\ stringToRecurrenceRule(recurrenceField.v, engine) # Thrown
            /\ ~(FieldHasToken("UNTIL") /\ FieldHasToken("COUNT"))
    /\ pc = "rule submitted" =>
         /\ endType = "on" => ~FieldHasToken("COUNT")
         /\ endType = "after" => ~FieldHasToken("UNTIL")
         /\ endType = "never" =>
              ~FieldHasToken("UNTIL") /\ ~FieldHasToken("COUNT")
    /\ pc = "preset chosen" =>
         ~FieldHasToken("UNTIL") /\ ~FieldHasToken("COUNT")

\* Done was pressed for a custom rule that has an end date and a count, and
\* the string has the token of the end type.
C28_Witness ==
  /\ pc = "rule submitted"
  /\ ~IsFalsy(customRule.endDate) /\ ~IsFalsy(customRule.count)
  /\ \/ endType = "on" /\ FieldHasToken("UNTIL")
     \/ endType = "after" /\ FieldHasToken("COUNT")

(***************************************************************************)
(* POST /api/v1/calendar (ApiSpec)                                         *)
(***************************************************************************)
\* The request was answered and none of its inserts is still in flight.
PostOver == pc = "answered" /\ inflight = {}

\* C29: after a POST that carries a meetingLinkId with meetingType online
\* or hybrid, answered with 201 or with an error, the scheduleToLink row of
\* the new event id exists exactly if its schedules row exists, and a link
\* row is never there before its schedule row.
C29_LinkRowWithScheduleRow ==
  /\ linkTable \subseteq schedulesTable
  /\ PostOver /\ postId > 0 /\ LinkRequested(postBody) =>
       (postId \in linkTable <=> postId \in schedulesTable)

(***************************************************************************)
(* The pagination links (PageSpec)                                         *)
(***************************************************************************)
Paged == pc = "paged"

\* The links of a relation in the response.
LinksOf(rel) == {l \in paginated.links : l[1] = rel}

\* C30: for every offset >= 0, limit >= 1 and total >= 0, generateLinks
\* gives a 'next' link exactly when offset + limit < total, and a 'last'
\* link, when there is one, has an offset strictly less than total: it
\* points at the last page that has an item, never at an empty page, also
\* when total is a multiple of limit.
C30_PaginationLinks ==
  Paged =>
    /\ (LinksOf("next") # {}) <=> (page.offset + page.limit < page.total)
    /\ \A l \in LinksOf("last") : l[2].offset < page.total

====
